---- MODULE Spec2Model ----
(***************************************************************************)
(* Model of the SEO audit toolkit's JavaScript core:                       *)
(*   StructuredDataParser (javascript/structured-data.js, lines 13-671),   *)
(*   MetaExtractor        (javascript/structured-data.js, lines 743-1240), *)
(*   SEOAuditToolkit      (javascript/index.js) and its command line,      *)
(*   FullSiteScan         (examples/full-site-scan.js).                    *)
(* A call is issued from the idle state, suspends at its axios.get, and    *)
(* resumes when the fetch settles; the environment chooses whether the     *)
(* fetch rejects or which document it returns.  Timestamps are not         *)
(* modelled.  A JavaScript exception is a value [threw |-> TRUE, ...]      *)
(* carrying the result object as mutated up to the throw.                  *)
(***************************************************************************)
EXTENDS Integers, Sequences, FiniteSets, TLC

VARIABLES pc, url, fetched, results, promise, fetches, bulk, csv, heap, calls, cli,
          scanner

vars == <<pc, url, fetched, results, promise, fetches, bulk, csv, heap, calls, cli, scanner>>

(***************************************************************************)
(* Bounds of the model.                                                    *)
(***************************************************************************)
\* longest run of identical JSON-LD script blocks on a page
MaxBlocks == 7
\* longest list of arbitrary JSON-LD script blocks on a page
MaxMixedBlocks == 2

(***************************************************************************)
(* JavaScript values.                                                      *)
(***************************************************************************)
Undefined == "undefined"
None == "none"

JsUndefined == [t |-> "undefined"]
JsNull == [t |-> "null"]
JsStr(s) == [t |-> "string", s |-> s]
JsNum(n) == [t |-> "number", n |-> n]
JsObj(f) == [t |-> "object", fields |-> f]
JsArr(items) == [t |-> "array", items |-> items]

\* ToBoolean: undefined, null, "", 0 and false are falsy
Truthy(v) ==
  CASE v.t = "undefined" -> FALSE
    [] v.t = "null" -> FALSE
    [] v.t = "string" -> v.s # ""
    [] v.t = "number" -> v.n # 0
    [] v.t = "boolean" -> v.b
    [] OTHER -> TRUE

\* obj[key] on a value: undefined when the key is absent or v has no fields
Get(v, key) ==
  IF v.t = "object" /\ key \in DOMAIN v.fields THEN v.fields[key] ELSE JsUndefined

Return(v) == [threw |-> FALSE, value |-> v]
Throw(msg, v) == [threw |-> TRUE, message |-> msg, value |-> v]

\* a minimum that never takes the cap
MinWithoutCap(a, b) == b

Min(a, b) == IF a < b THEN a ELSE b
Max(a, b) == IF a > b THEN a ELSE b

RECURSIVE FoldSeq(_, _, _)
\* Array.prototype.forEach / cheerio each, threading an accumulator; each
\* callback has run to completion before the next one starts
FoldSeq(Op(_, _), acc, s) ==
  IF s = <<>> THEN acc
  ELSE CHOOSE out \in {FoldSeq(Op, next, Tail(s)) : next \in {Op(acc, Head(s))}} : TRUE

(***************************************************************************)
(* Strings on which the code searches are kept as character sequences.     *)
(***************************************************************************)
Chars ==
  ("https://example.com/" :> <<"h", "t", "t", "p", "s", ":", "/", "/", "e", "x", "a", "m", "p", "l", "e", ".", "c", "o", "m", "/">> @@
   "https://example.com/product/1" :> <<"h", "t", "t", "p", "s", ":", "/", "/", "e", "x", "a", "m", "p", "l", "e", ".", "c", "o", "m", "/", "p", "r", "o", "d", "u", "c", "t", "/", "1">> @@
   "https://example.com/about" :> <<"h", "t", "t", "p", "s", ":", "/", "/", "e", "x", "a", "m", "p", "l", "e", ".", "c", "o", "m", "/", "a", "b", "o", "u", "t">> @@
   "https://shop.example.com/faq" :> <<"h", "t", "t", "p", "s", ":", "/", "/", "s", "h", "o", "p", ".", "e", "x", "a", "m", "p", "l", "e", ".", "c", "o", "m", "/", "f", "a", "q">> @@
   "https://example.com/product/" :> <<"h", "t", "t", "p", "s", ":", "/", "/", "e", "x", "a", "m", "p", "l", "e", ".", "c", "o", "m", "/", "p", "r", "o", "d", "u", "c", "t", "/">> @@
   "https://example.com/Home" :> <<"h", "t", "t", "p", "s", ":", "/", "/", "e", "x", "a", "m", "p", "l", "e", ".", "c", "o", "m", "/", "H", "o", "m", "e">> @@
   "https://example.com/blog/item-7" :> <<"h", "t", "t", "p", "s", ":", "/", "/", "e", "x", "a", "m", "p", "l", "e", ".", "c", "o", "m", "/", "b", "l", "o", "g", "/", "i", "t", "e", "m", "-", "7">> @@
   "https://example.com/shop/article" :> <<"h", "t", "t", "p", "s", ":", "/", "/", "e", "x", "a", "m", "p", "l", "e", ".", "c", "o", "m", "/", "s", "h", "o", "p", "/", "a", "r", "t", "i", "c", "l", "e">>) @@
  ("https://example.com/shop/faq" :> <<"h", "t", "t", "p", "s", ":", "/", "/", "e", "x", "a", "m", "p", "l", "e", ".", "c", "o", "m", "/", "s", "h", "o", "p", "/", "f", "a", "q">> @@
   "https://example.com/faq/contact" :> <<"h", "t", "t", "p", "s", ":", "/", "/", "e", "x", "a", "m", "p", "l", "e", ".", "c", "o", "m", "/", "f", "a", "q", "/", "c", "o", "n", "t", "a", "c", "t">> @@
   "https://example.com/Events/contact" :> <<"h", "t", "t", "p", "s", ":", "/", "/", "e", "x", "a", "m", "p", "l", "e", ".", "c", "o", "m", "/", "E", "v", "e", "n", "t", "s", "/", "c", "o", "n", "t", "a", "c", "t">> @@
   "https://example.com" :> <<"h", "t", "t", "p", "s", ":", "/", "/", "e", "x", "a", "m", "p", "l", "e", ".", "c", "o", "m">> @@
   "https://example.com:8080/" :> <<"h", "t", "t", "p", "s", ":", "/", "/", "e", "x", "a", "m", "p", "l", "e", ".", "c", "o", "m", ":", "8", "0", "8", "0", "/">> @@
   "https://example.com:8080/about" :> <<"h", "t", "t", "p", "s", ":", "/", "/", "e", "x", "a", "m", "p", "l", "e", ".", "c", "o", "m", ":", "8", "0", "8", "0", "/", "a", "b", "o", "u", "t">> @@
   "/home" :> <<"/", "h", "o", "m", "e">> @@
   "/product" :> <<"/", "p", "r", "o", "d", "u", "c", "t">>) @@
  ("/item" :> <<"/", "i", "t", "e", "m">> @@
   "/article" :> <<"/", "a", "r", "t", "i", "c", "l", "e">> @@
   "/blog" :> <<"/", "b", "l", "o", "g">> @@
   "/category" :> <<"/", "c", "a", "t", "e", "g", "o", "r", "y">> @@
   "/shop" :> <<"/", "s", "h", "o", "p">> @@
   "/faq" :> <<"/", "f", "a", "q">> @@
   "/contact" :> <<"/", "c", "o", "n", "t", "a", "c", "t">> @@
   "/location" :> <<"/", "l", "o", "c", "a", "t", "i", "o", "n">>) @@
  ("/event" :> <<"/", "e", "v", "e", "n", "t">> @@
   "Organization or LocalBusiness" :> <<"O", "r", "g", "a", "n", "i", "z", "a", "t", "i", "o", "n", " ", "o", "r", " ", "L", "o", "c", "a", "l", "B", "u", "s", "i", "n", "e", "s", "s">> @@
   "WebSite with SearchAction" :> <<"W", "e", "b", "S", "i", "t", "e", " ", "w", "i", "t", "h", " ", "S", "e", "a", "r", "c", "h", "A", "c", "t", "i", "o", "n">> @@
   "BreadcrumbList" :> <<"B", "r", "e", "a", "d", "c", "r", "u", "m", "b", "L", "i", "s", "t">> @@
   "Product with offers and reviews" :> <<"P", "r", "o", "d", "u", "c", "t", " ", "w", "i", "t", "h", " ", "o", "f", "f", "e", "r", "s", " ", "a", "n", "d", " ", "r", "e", "v", "i", "e", "w", "s">> @@
   "Organization" :> <<"O", "r", "g", "a", "n", "i", "z", "a", "t", "i", "o", "n">> @@
   "Article or BlogPosting" :> <<"A", "r", "t", "i", "c", "l", "e", " ", "o", "r", " ", "B", "l", "o", "g", "P", "o", "s", "t", "i", "n", "g">> @@
   "Author (Person)" :> <<"A", "u", "t", "h", "o", "r", " ", "(", "P", "e", "r", "s", "o", "n", ")">>) @@
  ("Publisher" :> <<"P", "u", "b", "l", "i", "s", "h", "e", "r">> @@
   "ItemList" :> <<"I", "t", "e", "m", "L", "i", "s", "t">> @@
   "WebPage" :> <<"W", "e", "b", "P", "a", "g", "e">> @@
   "FAQPage" :> <<"F", "A", "Q", "P", "a", "g", "e">> @@
   "LocalBusiness with address" :> <<"L", "o", "c", "a", "l", "B", "u", "s", "i", "n", "e", "s", "s", " ", "w", "i", "t", "h", " ", "a", "d", "d", "r", "e", "s", "s">> @@
   "OpeningHoursSpecification" :> <<"O", "p", "e", "n", "i", "n", "g", "H", "o", "u", "r", "s", "S", "p", "e", "c", "i", "f", "i", "c", "a", "t", "i", "o", "n">> @@
   "Review" :> <<"R", "e", "v", "i", "e", "w">> @@
   "Event with location and dates" :> <<"E", "v", "e", "n", "t", " ", "w", "i", "t", "h", " ", "l", "o", "c", "a", "t", "i", "o", "n", " ", "a", "n", "d", " ", "d", "a", "t", "e", "s">>) @@
  ("Offers" :> <<"O", "f", "f", "e", "r", "s">> @@
   "Product" :> <<"P", "r", "o", "d", "u", "c", "t">> @@
   "Article" :> <<"A", "r", "t", "i", "c", "l", "e">> @@
   "BlogPosting" :> <<"B", "l", "o", "g", "P", "o", "s", "t", "i", "n", "g">> @@
   "NewsArticle" :> <<"N", "e", "w", "s", "A", "r", "t", "i", "c", "l", "e">> @@
   "Recipe" :> <<"R", "e", "c", "i", "p", "e">> @@
   "Event" :> <<"E", "v", "e", "n", "t">> @@
   "Person" :> <<"P", "e", "r", "s", "o", "n">>) @@
  ("WebSite" :> <<"W", "e", "b", "S", "i", "t", "e">> @@
   "SearchAction" :> <<"S", "e", "a", "r", "c", "h", "A", "c", "t", "i", "o", "n">> @@
   "LocalBusiness" :> <<"L", "o", "c", "a", "l", "B", "u", "s", "i", "n", "e", "s", "s">> @@
   "Offer" :> <<"O", "f", "f", "e", "r">> @@
   "Thing" :> <<"T", "h", "i", "n", "g">> @@
   "Unknown" :> <<"U", "n", "k", "n", "o", "w", "n">> @@
   "{search_term_string}" :> <<"{", "s", "e", "a", "r", "c", "h", "_", "t", "e", "r", "m", "_", "s", "t", "r", "i", "n", "g", "}">> @@
   "https://example.com/search?q={search_term_string}" :> <<"h", "t", "t", "p", "s", ":", "/", "/", "e", "x", "a", "m", "p", "l", "e", ".", "c", "o", "m", "/", "s", "e", "a", "r", "c", "h", "?", "q", "=", "{", "s", "e", "a", "r", "c", "h", "_", "t", "e", "r", "m", "_", "s", "t", "r", "i", "n", "g", "}">>) @@
  ("https://example.com/search?q=query" :> <<"h", "t", "t", "p", "s", ":", "/", "/", "e", "x", "a", "m", "p", "l", "e", ".", "c", "o", "m", "/", "s", "e", "a", "r", "c", "h", "?", "q", "=", "q", "u", "e", "r", "y">> @@
   "schema.org/" :> <<"s", "c", "h", "e", "m", "a", ".", "o", "r", "g", "/">> @@
   "http://schema.org/Product" :> <<"h", "t", "t", "p", ":", "/", "/", "s", "c", "h", "e", "m", "a", ".", "o", "r", "g", "/", "P", "r", "o", "d", "u", "c", "t">> @@
   "https://schema.org/Person" :> <<"h", "t", "t", "p", "s", ":", "/", "/", "s", "c", "h", "e", "m", "a", ".", "o", "r", "g", "/", "P", "e", "r", "s", "o", "n">> @@
   "http://data-vocabulary.org/Person" :> <<"h", "t", "t", "p", ":", "/", "/", "d", "a", "t", "a", "-", "v", "o", "c", "a", "b", "u", "l", "a", "r", "y", ".", "o", "r", "g", "/", "P", "e", "r", "s", "o", "n">>)

Lower ==
  "A" :> "a" @@ "B" :> "b" @@ "E" :> "e" @@ "F" :> "f" @@ "H" :> "h" @@
  "I" :> "i" @@ "L" :> "l" @@ "N" :> "n" @@ "O" :> "o" @@ "P" :> "p" @@
  "Q" :> "q" @@ "R" :> "r" @@ "S" :> "s" @@ "T" :> "t" @@ "U" :> "u" @@
  "W" :> "w"

\* a comparison that keeps the case of its strings
KeepCase(cs) == cs

\* String.prototype.toLowerCase
toLowerCase(cs) ==
  [i \in 1..Len(cs) |-> IF cs[i] \in DOMAIN Lower THEN Lower[cs[i]] ELSE cs[i]]

\* String.prototype.includes
includes(cs, needle) ==
  \E i \in 0..(Len(cs) - Len(needle)) : SubSeq(cs, i + 1, i + Len(needle)) = needle

\* String.prototype.endsWith
endsWith(cs, suffix) ==
  /\ Len(cs) >= Len(suffix)
  /\ SubSeq(cs, Len(cs) - Len(suffix) + 1, Len(cs)) = suffix

\* padded strings of the documents and what String.prototype.trim makes of them
Trimmed ==
  "  Widget  " :> "Widget" @@ "   " :> "" @@ " Main Heading " :> "Main Heading"

trim(s) == IF s \in DOMAIN Trimmed THEN Trimmed[s] ELSE s

(***************************************************************************)
(* StructuredDataParser                                                    *)
(***************************************************************************)
\* the members of class StructuredDataParser
StructuredDataParserMethods ==
  {"constructor", "parse", "_parseJsonLd", "_parseMicrodata",
   "_extractMicrodataProperties", "_getMicrodataValue", "_parseRDFa",
   "_extractRDFaProperties", "_processSchema", "_validateSchemas",
   "_validateOrganization", "_validateProduct", "_validateArticle",
   "_validateBreadcrumbList", "_validateFAQPage", "_validateRecipe",
   "_validateEvent", "_validatePerson", "_validateWebSite",
   "_validateSearchAction", "_checkRequiredProperties",
   "_checkRecommendedProperties", "_analyzeAndRecommend", "_detectPageType",
   "_calculateScore", "_extractTypeFromUrl", "_isValidDate"}

\* the error field of a result that has none
NoMessage == <<>>

\* TypeError raised by calling a member the class does not have
NotAFunction(name) == <<"this.", name, " is not a function">>

\* the results object parse starts from
NewParseResults(u) ==
  [url |-> u,
   status |-> "completed",
   formats |-> [jsonLd |-> <<>>, microdata |-> <<>>, rdfa |-> <<>>],
   schemas |-> <<>>,
   validation |-> [errors |-> <<>>, warnings |-> <<>>],
   recommendations |-> <<>>,
   score |-> 100,
   issues |-> [critical |-> 0, warnings |-> 0, passed |-> 0],
   error |-> NoMessage]

pushError(r, msg) ==
  [r EXCEPT !.validation.errors = Append(@, msg)]

pushWarning(r, msg) ==
  [r EXCEPT !.validation.warnings = Append(@, msg)]

\* an error message pushed without its counter increment
AddCriticalUncounted(r, msg) ==
  [r EXCEPT !.validation.errors = Append(@, msg)]

\* results.validation.errors.push(msg); results.issues.critical++
addCritical(r, msg) ==
  [pushError(r, msg) EXCEPT !.issues.critical = @ + 1]

\* results.validation.warnings.push(msg); results.issues.warnings++
addWarning(r, msg) ==
  [pushWarning(r, msg) EXCEPT !.issues.warnings = @ + 1]

\* this._validateSchemaType(processed): the class has no such member
_validateSchemaType(processed) ==
  IF "_validateSchemaType" \in StructuredDataParserMethods
  THEN Return(processed)
  ELSE Throw(NotAFunction("_validateSchemaType"), processed)

_processSchema(schema, format) ==
  LET keys == IF schema.t = "object" THEN DOMAIN schema.fields ELSE {}
      Typed(ty) == IF Truthy(ty) THEN ty.s ELSE "Unknown"
  IN _validateSchemaType(
       [format |-> format,
        type |-> Typed(Get(schema, "@type")),
        properties |->
          [k \in {k \in keys : k \notin {"@type", "@context", "@id", "_format"}} |-> schema.fields[k]],
        validation |-> [errors |-> <<>>, warnings |-> <<>>]])

\* JSON.parse of a script block's text
JSONparse(content) ==
  IF content.kind = "malformed"
  THEN Throw(<<"Unexpected token">>, JsUndefined)
  ELSE Return(content.json)

RECURSIVE JsonLdSchemas(_, _)
\* schemas.forEach(...) of one script block; a throw leaves the loop
JsonLdSchemas(schemas, r) ==
  LET Pushed(p) ==
        IF p.threw THEN Throw(p.message, r)
        ELSE JsonLdSchemas(Tail(schemas),
               [r EXCEPT !.formats.jsonLd = Append(@, p.value),
                         !.schemas = Append(@, p.value)])
  IN IF schemas = <<>> THEN Return(r)
     ELSE IF Truthy(Head(schemas)) /\ Head(schemas).t \in {"object", "array", "null"}
     THEN Pushed(_processSchema(Head(schemas), "JSON-LD"))
     ELSE JsonLdSchemas(Tail(schemas), r)

\* the callback of scripts.each; the catch of the script block adds one
\* "Invalid JSON-LD" error, critical++
JsonLdScript(r, content) ==
  LET Caught(x) == IF x.threw THEN addCritical(x.value, <<"Invalid JSON-LD: ">> \o x.message)
                   ELSE x.value
      Each(json) ==
        JsonLdSchemas(IF json.t = "array" THEN json.items ELSE <<json>>, r)
      Parsed(j) == IF j.threw THEN Throw(j.message, r) ELSE Each(j.value)
  IN Caught(Parsed(JSONparse(content)))

_parseJsonLd(page, r) == FoldSeq(JsonLdScript, r, page.jsonLd)

\* url.match(/schema\.org\/(.+)$/): the text after the first "schema.org/"
_extractTypeFromUrl(itemtype) ==
  LET Match(chars) ==
        LET cs == chars[itemtype]
            key == chars["schema.org/"]
            at == {i \in 1..(Len(cs) - Len(key)) : SubSeq(cs, i, i + Len(key) - 1) = key}
            first == CHOOSE i \in at : \A j \in at : i <= j
        IN IF at = {} THEN "Thing"
           ELSE CHOOSE s \in DOMAIN chars : chars[s] = SubSeq(cs, first + Len(key), Len(cs))
  IN Match(Chars)

\* this._extractNestedMicrodata($elem): the class has no such member
_extractNestedMicrodata(elem) ==
  IF "_extractNestedMicrodata" \in StructuredDataParserMethods
  THEN Return(JsObj(<<>>))
  ELSE Throw(NotAFunction("_extractNestedMicrodata"), JsUndefined)

\* an attribute that is present and non-empty wins, then the trimmed text
_getMicrodataValue(elem) ==
  IF elem.itemscope THEN _extractNestedMicrodata(elem)
  ELSE Return(IF elem.content \notin {Undefined, ""} THEN JsStr(elem.content)
              ELSE IF elem.src \notin {Undefined, ""} THEN JsStr(elem.src)
              ELSE IF elem.href \notin {Undefined, ""} THEN JsStr(elem.href)
              ELSE JsStr(trim(elem.text)))

RECURSIVE _extractMicrodataProperties(_, _)
\* properties.each(...) over the item's [itemprop] descendants;
\* the guard reads  propName && (!parents.length) > 1
_extractMicrodataProperties(props, schema) ==
  LET prop == Head(props)
      Added(old, v) ==
        IF Truthy(old)
        THEN JsArr(Append(IF old.t = "array" THEN old.items ELSE <<old>>, v))
        ELSE v
      Valued(v) ==
        IF v.threw THEN Throw(v.message, schema)
        ELSE _extractMicrodataProperties(Tail(props),
               JsObj((prop.itemprop :> Added(Get(schema, prop.itemprop), v.value))
                     @@ schema.fields))
  IN IF props = <<>> THEN Return(schema)
     ELSE IF prop.itemprop \notin {Undefined, ""} /\ (IF ~(prop.scopes # 0) THEN 1 ELSE 0) > 1
     THEN Valued(_getMicrodataValue(prop))
     ELSE _extractMicrodataProperties(Tail(props), schema)

RECURSIVE MicrodataItems(_, _)
\* items.each(...) over the [itemscope] elements
MicrodataItems(items, r) ==
  LET Pushed(p) ==
        IF p.threw THEN Throw(p.message, r)
        ELSE MicrodataItems(Tail(items),
               [r EXCEPT !.formats.microdata = Append(@, p.value),
                         !.schemas = Append(@, p.value)])
      Extracted(ex) ==
        IF ex.threw THEN Throw(ex.message, r)
        ELSE Pushed(_processSchema(ex.value, "Microdata"))
  IN IF items = <<>> THEN Return(r)
     ELSE IF Head(items).itemtype \notin {Undefined, ""}
     THEN Extracted(_extractMicrodataProperties(Head(items).itemprops,
            JsObj(("@type" :> JsStr(_extractTypeFromUrl(Head(items).itemtype)))
                  @@ ("@context" :> JsStr("http://schema.org"))
                  @@ ("_format" :> JsStr("Microdata")))))
     ELSE MicrodataItems(Tail(items), r)

_parseMicrodata(page, r) == MicrodataItems(page.microdata, r)

\* properties.each(...): the last occurrence of a property wins
RdfaProperty(schema, prop) ==
  LET content == IF prop.content \notin {Undefined, ""} THEN prop.content
                 ELSE trim(prop.text)
  IN IF prop.property \notin {Undefined, ""} /\ content # ""
     THEN JsObj((prop.property :> JsStr(content)) @@ schema.fields)
     ELSE schema

_extractRDFaProperties(elem, schema) == FoldSeq(RdfaProperty, schema, elem.props)

RECURSIVE RdfaElements(_, _)
\* rdfaElements.each(...) over the [typeof] elements
RdfaElements(elems, r) ==
  LET elem == Head(elems)
      vocab == IF elem.vocab \notin {Undefined, ""} THEN elem.vocab
               ELSE "http://schema.org/"
      Pushed(p) ==
        IF p.threw THEN Throw(p.message, r)
        ELSE RdfaElements(Tail(elems),
               [r EXCEPT !.formats.rdfa = Append(@, p.value),
                         !.schemas = Append(@, p.value)])
  IN IF elems = <<>> THEN Return(r)
     ELSE IF elem.typeof \notin {Undefined, ""}
     THEN Pushed(_processSchema(
            _extractRDFaProperties(elem,
              JsObj(("@type" :> JsStr(elem.typeof))
                    @@ ("@context" :> JsStr(vocab))
                    @@ ("_format" :> JsStr("RDFa")))), "RDFa"))
     ELSE RdfaElements(Tail(elems), r)

_parseRDFa(page, r) == RdfaElements(page.rdfa, r)

(***************************************************************************)
(* Validation rules                                                        *)
(***************************************************************************)
\* schema.properties[prop]
P(schema, prop) ==
  IF prop \in DOMAIN schema.properties THEN schema.properties[prop] ELSE JsUndefined

\* a normalisation that drops a value that is not an array
AsListOfArraysOnly(v) == IF v.t = "array" THEN v.items ELSE <<>>

\* Array.isArray(v) ? v : [v]
AsList(v) == IF v.t = "array" THEN v.items ELSE <<v>>

\* Array.prototype.filter
RECURSIVE Filter(_, _)
Filter(Keep(_), s) ==
  IF s = <<>> THEN <<>>
  ELSE (IF Keep(Head(s)) THEN <<Head(s)>> ELSE <<>>) \o Filter(Keep, Tail(s))

\* Array.prototype.join(', ')
RECURSIVE Join(_)
Join(s) ==
  IF s = <<>> THEN <<>>
  ELSE IF Len(s) = 1 THEN s
  ELSE <<Head(s), ", ">> \o Join(Tail(s))

\* !isNaN(new Date(v)): the strings new Date parses to a valid date
_isValidDate(v) ==
  CASE v.t = "string" -> v.s \in {"2024-01-15", "2024-01-15T10:00:00Z", "January 15, 2024"}
    [] v.t = "number" -> TRUE
    [] OTHER -> FALSE

\* a reading in which no string contains the token
NoPlaceholderStrings == {}

\* strings containing the token {search_term_string}
WithPlaceholder == {"https://example.com/search?q={search_term_string}"}

_checkRequiredProperties(schema, required, r) ==
  LET Check(acc, prop) ==
        IF ~Truthy(P(schema, prop))
        THEN addCritical(acc, <<schema.type, " missing required property: ", prop>>)
        ELSE acc
  IN FoldSeq(Check, r, required)

_checkRecommendedProperties(schema, recommended, r) ==
  LET Missing(prop) == ~Truthy(P(schema, prop))
      missing == Filter(Missing, recommended)
  IN IF Len(missing) > 0
     THEN addWarning(r, <<schema.type, " missing recommended properties: ">> \o Join(missing))
     ELSE r

_validateOrganization(schema, r) ==
  LET Logo(a) ==
        IF Truthy(P(schema, "logo")) /\ P(schema, "logo").t = "string"
        THEN addWarning(a, <<"Organization logo should be an ImageObject with width and height">>)
        ELSE a
  IN Logo(_checkRecommendedProperties(schema,
            <<"logo", "sameAs", "contactPoint", "address">>,
            _checkRequiredProperties(schema, <<"name", "url">>, r)))

_validateProduct(schema, r) ==
  LET Price(a, offer) ==
        IF ~Truthy(Get(offer, "price")) /\ ~Truthy(Get(offer, "priceRange"))
        THEN addCritical(a, <<"Product offer missing price information">>)
        ELSE a
      Offer(a, offer) ==
        IF ~Truthy(Get(offer, "priceCurrency"))
        THEN addCritical(Price(a, offer), <<"Product offer missing priceCurrency">>)
        ELSE Price(a, offer)
      Offers(a) ==
        IF Truthy(P(schema, "offers"))
        THEN FoldSeq(Offer, a, AsList(P(schema, "offers")))
        ELSE a
      Ratings(a) ==
        IF ~Truthy(P(schema, "aggregateRating")) /\ ~Truthy(P(schema, "review"))
        THEN addWarning(a, <<"Product missing ratings/reviews - needed for rich results">>)
        ELSE a
  IN Ratings(Offers(_checkRecommendedProperties(schema,
       <<"description", "sku", "offers", "aggregateRating", "brand", "review">>,
       _checkRequiredProperties(schema, <<"name", "image">>, r))))

_validateArticle(schema, r) ==
  LET Image(a) ==
        IF Truthy(P(schema, "image")) /\ Len(AsList(P(schema, "image"))) = 0
        THEN addCritical(a, <<"Article requires at least one image">>)
        ELSE a
      Published(a) ==
        IF Truthy(P(schema, "datePublished")) /\ ~_isValidDate(P(schema, "datePublished"))
        THEN addCritical(a, <<"Invalid datePublished format - use ISO 8601">>)
        ELSE a
  IN Published(Image(_checkRecommendedProperties(schema,
       <<"dateModified", "publisher", "mainEntityOfPage", "description">>,
       _checkRequiredProperties(schema,
         <<"headline", "image", "author", "datePublished">>, r))))

RECURSIVE BreadcrumbItems(_, _, _)
\* items.forEach((item, index) => ...)
BreadcrumbItems(items, index, r) ==
  LET Position(a) ==
        IF ~Truthy(Get(Head(items), "position"))
        THEN addCritical(a, <<"BreadcrumbList item ", ToString(index), " missing position">>)
        ELSE a
      Name(a) ==
        IF ~Truthy(Get(Head(items), "name"))
        THEN addCritical(a, <<"BreadcrumbList item ", ToString(index), " missing name">>)
        ELSE a
  IN IF items = <<>> THEN r
     ELSE BreadcrumbItems(Tail(items), index + 1, Name(Position(r)))

_validateBreadcrumbList(schema, r) ==
  IF ~Truthy(P(schema, "itemListElement"))
  THEN addCritical(r, <<"BreadcrumbList missing itemListElement">>)
  ELSE BreadcrumbItems(AsList(P(schema, "itemListElement")), 0, r)

RECURSIVE FAQQuestions(_, _, _)
\* questions.forEach((question, index) => ...)
FAQQuestions(questions, index, r) ==
  LET question == Head(questions)
      Name(a) ==
        IF ~Truthy(Get(question, "name"))
        THEN addCritical(a, <<"FAQ question ", ToString(index), " missing name">>)
        ELSE a
      Answer(a) ==
        IF ~Truthy(Get(question, "acceptedAnswer"))
        THEN addCritical(a, <<"FAQ question ", ToString(index), " missing acceptedAnswer">>)
        ELSE IF ~Truthy(Get(Get(question, "acceptedAnswer"), "text"))
        THEN addCritical(a, <<"FAQ question ", ToString(index), " acceptedAnswer missing text">>)
        ELSE a
  IN IF questions = <<>> THEN r
     ELSE FAQQuestions(Tail(questions), index + 1, Answer(Name(r)))

_validateFAQPage(schema, r) ==
  IF ~Truthy(P(schema, "mainEntity"))
  THEN addCritical(r, <<"FAQPage missing mainEntity">>)
  ELSE FAQQuestions(AsList(P(schema, "mainEntity")), 0, r)

_validateRecipe(schema, r) ==
  _checkRecommendedProperties(schema,
    <<"prepTime", "cookTime", "totalTime", "recipeYield",
      "nutrition", "aggregateRating", "author", "description">>,
    _checkRequiredProperties(schema,
      <<"name", "image", "recipeIngredient", "recipeInstructions">>, r))

_validateEvent(schema, r) ==
  LET Start(a) ==
        IF Truthy(P(schema, "startDate")) /\ ~_isValidDate(P(schema, "startDate"))
        THEN addCritical(a, <<"Invalid startDate format - use ISO 8601">>)
        ELSE a
  IN Start(_checkRecommendedProperties(schema,
       <<"endDate", "description", "image", "performer", "offers">>,
       _checkRequiredProperties(schema, <<"name", "startDate", "location">>, r)))

_validatePerson(schema, r) ==
  _checkRecommendedProperties(schema,
    <<"image", "jobTitle", "worksFor", "sameAs", "url">>,
    _checkRequiredProperties(schema, <<"name">>, r))

_validateWebSite(schema, r) ==
  LET Search(a) ==
        IF ~Truthy(P(schema, "potentialAction"))
        THEN addWarning(a, <<"WebSite schema missing SearchAction - add for sitelinks searchbox">>)
        ELSE a
  IN Search(_checkRecommendedProperties(schema, <<"potentialAction", "publisher">>,
       _checkRequiredProperties(schema, <<"name", "url">>, r)))

_validateSearchAction(schema, r) ==
  LET Target(a, target) ==
        IF Truthy(target) /\ target.t = "string" /\ target.s \notin WithPlaceholder
        THEN addCritical(a, <<"SearchAction target must include {search_term_string} placeholder">>)
        ELSE a
  IN Target(_checkRequiredProperties(schema, <<"target", "query-input">>, r),
            P(schema, "target"))

\* the typeValidators table: type name -> member the entry reads
typeValidators ==
  "Organization" :> "_validateOrganization" @@
  "LocalBusiness" :> "_validateLocalBusiness" @@
  "Product" :> "_validateProduct" @@
  "Article" :> "_validateArticle" @@
  "BlogPosting" :> "_validateArticle" @@
  "NewsArticle" :> "_validateArticle" @@
  "BreadcrumbList" :> "_validateBreadcrumbList" @@
  "FAQPage" :> "_validateFAQPage" @@
  "Recipe" :> "_validateRecipe" @@
  "Event" :> "_validateEvent" @@
  "Person" :> "_validatePerson" @@
  "WebSite" :> "_validateWebSite" @@
  "SearchAction" :> "_validateSearchAction"

\* validator.call(this, schema, results)
CallValidator(name, schema, r) ==
  CASE name = "_validateOrganization" -> _validateOrganization(schema, r)
    [] name = "_validateProduct" -> _validateProduct(schema, r)
    [] name = "_validateArticle" -> _validateArticle(schema, r)
    [] name = "_validateBreadcrumbList" -> _validateBreadcrumbList(schema, r)
    [] name = "_validateFAQPage" -> _validateFAQPage(schema, r)
    [] name = "_validateRecipe" -> _validateRecipe(schema, r)
    [] name = "_validateEvent" -> _validateEvent(schema, r)
    [] name = "_validatePerson" -> _validatePerson(schema, r)
    [] name = "_validateWebSite" -> _validateWebSite(schema, r)
    [] name = "_validateSearchAction" -> _validateSearchAction(schema, r)

\* a table entry whose member does not exist is undefined and is skipped
_validateSchemas(r) ==
  LET Validate(acc, schema) ==
        IF /\ schema.type \in DOMAIN typeValidators
           /\ typeValidators[schema.type] \in StructuredDataParserMethods
        THEN CallValidator(typeValidators[schema.type], schema, acc)
        ELSE acc
  IN FoldSeq(Validate, r, r.schemas)

(***************************************************************************)
(* Recommendations and score                                               *)
(***************************************************************************)
\* a classification that looks at the found schema types before the URL
DetectPageTypeBySchemasFirst(u, schemaTypes) ==
  IF \E i \in 1..Len(schemaTypes) : schemaTypes[i] = "Product" THEN "product"
  ELSE IF \E i \in 1..Len(schemaTypes) :
            schemaTypes[i] \in {"Article", "BlogPosting", "NewsArticle"} THEN "article"
  ELSE "general"

_detectPageType(u, schemaTypes) ==
  LET found(ty) == \E i \in 1..Len(schemaTypes) : schemaTypes[i] = ty
      Detect(chars, urlLower) ==
        LET urlHas(needle) == includes(urlLower, chars[needle])
        IN IF endsWith(chars[u], <<"/">>) \/ urlHas("/home") THEN "homepage"
           ELSE IF urlHas("/product") \/ urlHas("/item") THEN "product"
           ELSE IF urlHas("/article") \/ urlHas("/blog") THEN "article"
           ELSE IF urlHas("/category") \/ urlHas("/shop") THEN "category"
           ELSE IF urlHas("/faq") THEN "faq"
           ELSE IF urlHas("/contact") \/ urlHas("/location") THEN "local"
           ELSE IF urlHas("/event") THEN "event"
           ELSE IF found("Product") THEN "product"
           ELSE IF found("Article") \/ found("BlogPosting") \/ found("NewsArticle")
                THEN "article"
           ELSE "general"
      Lowered(chars) == Detect(chars, toLowerCase(chars[u]))
  IN Lowered(Chars)

\* a count of passed checks that is never negative
PassedChecksClamped(r) ==
  IF Len(r.schemas) - r.issues.critical - r.issues.warnings < 0 THEN 0
  ELSE Len(r.schemas) - r.issues.critical - r.issues.warnings

\* results.schemas.length - results.issues.critical - results.issues.warnings
PassedChecks(r) == Len(r.schemas) - r.issues.critical - r.issues.warnings

\* the recommendations table of _analyzeAndRecommend
recommendations ==
  "homepage" :> <<"Organization or LocalBusiness", "WebSite with SearchAction", "BreadcrumbList">> @@
  "product" :> <<"Product with offers and reviews", "BreadcrumbList", "Organization">> @@
  "article" :> <<"Article or BlogPosting", "BreadcrumbList", "Author (Person)", "Publisher">> @@
  "category" :> <<"BreadcrumbList", "ItemList", "WebPage">> @@
  "faq" :> <<"FAQPage", "BreadcrumbList", "Organization">> @@
  "local" :> <<"LocalBusiness with address", "OpeningHoursSpecification", "Review">> @@
  "event" :> <<"Event with location and dates", "Organization", "Offers">>

_analyzeAndRecommend(u, r) ==
  LET schemaTypes == [i \in 1..Len(r.schemas) |-> r.schemas[i].type]
      Pick(table, pageType) ==
        IF pageType \in DOMAIN table THEN table[pageType] ELSE table["homepage"]
      Recommend(chars, recommended) ==
        LET Rec(acc, rec) ==
              IF \E i \in 1..Len(schemaTypes) :
                   includes(toLowerCase(chars[rec]), toLowerCase(chars[schemaTypes[i]]))
              THEN acc
              ELSE [acc EXCEPT !.recommendations =
                      Append(@, <<"Consider adding ", rec, " schema">>)]
        IN FoldSeq(Rec, r, recommended)
      NoSchemas(a) ==
        IF Len(a.schemas) = 0
        THEN [a EXCEPT !.recommendations = Append(@,
               <<"No structured data found - add appropriate schemas for rich results">>)]
        ELSE a
      NoJsonLd(a) ==
        IF Len(a.formats.jsonLd) = 0
        THEN [a EXCEPT !.recommendations = Append(@,
               <<"Use JSON-LD format for structured data (Google's preferred format)">>)]
        ELSE a
      Passed(a) == [a EXCEPT !.issues.passed = PassedChecks(a)]
  IN Passed(NoJsonLd(NoSchemas(
       Recommend(Chars, Pick(recommendations, _detectPageType(u, schemaTypes))))))

\* _calculateScore without the clamp of its last statement
CalculateScoreUnclamped(r) ==
  LET s1 == 100 - Len(r.validation.errors) * 15 - Len(r.validation.warnings) * 5
      s2 == IF Len(r.schemas) > 0 THEN s1 + 10 ELSE s1
  IN [r EXCEPT !.score = IF Len(r.formats.jsonLd) > 0 THEN s2 + 5 ELSE s2]

\* _calculateScore charging 10 points for an error
CalculateScoreErrorWeight10(r) ==
  LET s1 == 100 - Len(r.validation.errors) * 10 - Len(r.validation.warnings) * 5
      s2 == IF Len(r.schemas) > 0 THEN s1 + 10 ELSE s1
      s3 == IF Len(r.formats.jsonLd) > 0 THEN s2 + 5 ELSE s2
  IN [r EXCEPT !.score = Max(0, Min(100, s3))]

_calculateScore(r) ==
  LET Errors(score) == score - Len(r.validation.errors) * 15
      Warnings(score) == score - Len(r.validation.warnings) * 5
      AnySchema(score) == IF Len(r.schemas) > 0 THEN score + 10 ELSE score
      JsonLd(score) == IF Len(r.formats.jsonLd) > 0 THEN score + 5 ELSE score
  IN [r EXCEPT !.score = Max(0, Min(100, JsonLd(AnySchema(Warnings(Errors(100))))))]

\* a catch that records the status but drops the message
ParseCatchWithoutMessage(r, message) ==
  [r EXCEPT !.status = "error"]

\* catch (error) of parse
ParseCatch(r, message) ==
  [r EXCEPT !.status = "error",
            !.error = message,
            !.validation.errors = Append(@, <<"Failed to fetch URL: ">> \o message)]

\* parse from the point where axios.get settles to its return
parseResume(u, r, response) ==
  LET Caught(x) == Return(ParseCatch(x.value, x.message))
      Rules(a) ==
        Return(_calculateScore(_analyzeAndRecommend(u, _validateSchemas(a))))
      AfterRDFa(c) == IF c.threw THEN Caught(c) ELSE Rules(c.value)
      AfterMicrodata(page, b) ==
        IF b.threw THEN Caught(b) ELSE AfterRDFa(_parseRDFa(page, b.value))
  IN IF response.rejected THEN Return(ParseCatch(r, response.message))
     ELSE AfterMicrodata(response.data,
            _parseMicrodata(response.data, _parseJsonLd(response.data, r)))


(***************************************************************************)
(* MetaExtractor                                                           *)
(***************************************************************************)
\* String.prototype.length of the documents' titles and descriptions
Length ==
  "Audit toolkit page title Audi" :> 29 @@
  "Audit toolkit page title Audit" :> 30 @@
  "Audit toolkit page title Audit toolkit page title Audit tool" :> 60 @@
  "Audit toolkit page title Audit toolkit page title Audit toolk" :> 61 @@
  "This page describes the audit toolkit This page describes the audit toolkit This page describes the audit toolkit This." :> 119 @@
  "This page describes the audit toolkit This page describes the audit toolkit This page describes the audit toolkit This p" :> 120 @@
  "This page describes the audit toolkit This page describes the audit toolkit This page describes the audit toolkit This page describes the audit toolkit This pag" :> 160 @@
  "This page describes the audit toolkit This page describes the audit toolkit This page describes the audit toolkit This page describes the audit toolkit This page" :> 161 @@
  "Home" :> 4 @@
  "Test" :> 4 @@
  "  Widget  " :> 10 @@
  "Widget" :> 6 @@
  "Title with \"quotes\"" :> 19

\* String.prototype.toLowerCase of the documents' titles
lowerCase(s) ==
  LET LowerCased == "Home" :> "home" @@ "Test" :> "test"
  IN IF s \in DOMAIN LowerCased THEN LowerCased[s] ELSE s

\* what new URL(href, base) makes of the documents' hrefs:
\* whether it throws, and the hostname (a relative href takes the base's)
Hrefs ==
  "/internal" :> [valid |-> TRUE, relative |-> TRUE, hostname |-> ""] @@
  "https://example.com/another" :> [valid |-> TRUE, relative |-> FALSE, hostname |-> "example.com"] @@
  "https://example.com/test-page" :> [valid |-> TRUE, relative |-> FALSE, hostname |-> "example.com"] @@
  "https://external.com" :> [valid |-> TRUE, relative |-> FALSE, hostname |-> "external.com"] @@
  "mailto:info@example.com" :> [valid |-> TRUE, relative |-> FALSE, hostname |-> ""] @@
  "http://" :> [valid |-> FALSE, relative |-> FALSE, hostname |-> ""] @@
  "#top" :> [valid |-> TRUE, relative |-> TRUE, hostname |-> ""]

\* hrefs beginning with '#'
Fragments == {"#top"}

\* hostname of the audited URLs
Hostname ==
  "https://example.com/" :> "example.com" @@
  "https://example.com/product/1" :> "example.com" @@
  "https://example.com/about" :> "example.com" @@
  "https://shop.example.com/faq" :> "shop.example.com" @@
  "https://example.com" :> "example.com" @@
  "https://example.com:8080/" :> "example.com" @@
  "https://example.com:8080/about" :> "example.com"

\* new URL(href[, base]): throws on a malformed href, and on a relative one
\* when no base is given
NewURL(href, base) ==
  LET Made(h) ==
        IF ~h.valid \/ (h.relative /\ base = None)
        THEN Throw(<<"Invalid URL">>, JsUndefined)
        ELSE Return([hostname |-> IF h.relative THEN Hostname[base] ELSE h.hostname])
  IN Made(Hrefs[href])

\* attribute values in which the code looks for a token
Tokens ==
  "index, follow" :> {} @@
  "noindex, nofollow" :> {"noindex", "nofollow"} @@
  "width=device-width, initial-scale=1" :> {"width=device-width", "initial-scale=1"} @@
  "width=1024" :> {} @@
  "nofollow" :> {"nofollow"} @@
  "noopener noreferrer" :> {"noopener"} @@
  "author" :> {} @@
  "" :> {}

\* value.includes(token)
hasToken(value, token) == token \in Tokens[value]

\* the results object extract starts from
NewExtractResults(u) ==
  [url |-> u,
   status |-> "completed",
   meta |-> [k \in {"title", "description", "keywords", "robots", "canonical",
                    "viewport", "charset", "og:title", "og:description",
                    "og:image", "og:url", "og:type", "twitter:card",
                    "twitter:title", "twitter:description", "twitter:image"}
             |-> JsNull],
   headings |-> [t \in {"h1", "h2", "h3", "h4", "h5", "h6"} |-> <<>>],
   images |-> [total |-> 0, withAlt |-> 0, withoutAlt |-> 0, images |-> <<>>],
   links |-> [internal |-> 0, external |-> 0, total |-> 0],
   issues |-> <<>>,
   warnings |-> <<>>,
   externalLinksNoRel |-> JsUndefined,
   recommendations |-> <<>>,
   score |-> 100,
   error |-> NoMessage]

\* an issue that deducts its points twice
IssueDoublePoints(r, msg, points) ==
  [r EXCEPT !.issues = Append(@, msg), !.score = @ - 2 * points]

issue(r, msg, points) ==
  [r EXCEPT !.issues = Append(@, msg), !.score = @ - points]

\* a warning that costs no points
WarningWithoutDeduction(r, msg, points) ==
  [r EXCEPT !.warnings = Append(@, msg)]

warning(r, msg, points) ==
  [r EXCEPT !.warnings = Append(@, msg), !.score = @ - points]

setMeta(r, key, v) ==
  [r EXCEPT !.meta = (key :> v) @@ @]

\* an attribute value that is present and non-empty
Present(v) == v \notin {Undefined, ""}

_extractTitle(doc, r) ==
  LET Short(a, n) ==
        IF n < 30
        THEN warning(a, <<"Title too short (", ToString(n),
                          " chars) - aim for 30-60 characters">>, 5)
        ELSE IF n > 60
        THEN warning(a, <<"Title too long (", ToString(n),
                          " chars) - keep under 60 characters">>, 5)
        ELSE a
      Generic(a, title) ==
        IF lowerCase(title) \in {"home", "index", "untitled", "welcome"}
        THEN issue(a, <<"Generic page title detected - make it unique and descriptive">>, 10)
        ELSE a
      Measured(title, n) ==
        IF title = "" THEN issue(r, <<"Missing page title">>, 20)
        ELSE Generic(Short(setMeta(r, "title",
                                   JsObj([content |-> JsStr(title), length |-> JsNum(n)])),
                           n), title)
      Titled(title) == Measured(title, Length[title])
  IN Titled(trim(doc.title))

_extractOpenGraphTags(doc, r) ==
  LET Tag(acc, tag) ==
        IF tag \in DOMAIN doc.og /\ Present(doc.og[tag])
        THEN [hit |-> TRUE, r |-> setMeta(acc.r, "og:" \o tag, JsStr(trim(doc.og[tag])))]
        ELSE acc
      Missing(a, key) == ~(key \in DOMAIN a.meta /\ Truthy(a.meta[key]))
      Title(a) ==
        IF Missing(a, "og:title") THEN warning(a, <<"Missing og:title tag">>, 0) ELSE a
      Description(a) ==
        IF Missing(a, "og:description")
        THEN warning(a, <<"Missing og:description tag">>, 0) ELSE a
      Image(a) ==
        IF Missing(a, "og:image")
        THEN warning(a, <<"Missing og:image tag - important for social sharing">>, 0)
        ELSE a
      Checked(done) ==
        IF ~done.hit
        THEN warning(done.r, <<"No Open Graph tags found - consider adding for better social sharing">>, 5)
        ELSE Image(Description(Title(done.r)))
  IN Checked(FoldSeq(Tag, [hit |-> FALSE, r |-> r],
                     <<"title", "description", "image", "url", "type", "site_name">>))

_extractTwitterCardTags(doc, r) ==
  LET Tag(acc, tag) ==
        IF tag \in DOMAIN doc.twitter /\ Present(doc.twitter[tag])
        THEN [hit |-> TRUE, r |-> setMeta(acc.r, "twitter:" \o tag, JsStr(trim(doc.twitter[tag])))]
        ELSE acc
      Checked(done) ==
        IF ~done.hit
        THEN warning(done.r, <<"No Twitter Card tags found - consider adding for Twitter sharing">>, 3)
        ELSE done.r
  IN Checked(FoldSeq(Tag, [hit |-> FALSE, r |-> r],
                     <<"card", "title", "description", "image", "site", "creator">>))

_extractMetaTags(doc, r) ==
  LET Sized(a, n) ==
        IF n < 120
        THEN warning(a, <<"Description too short (", ToString(n),
                          " chars) - aim for 120-160 characters">>, 5)
        ELSE IF n > 160
        THEN warning(a, <<"Description too long (", ToString(n),
                          " chars) - keep under 160 characters">>, 5)
        ELSE a
      Described(a, length) ==
        IF ~Present(doc.description) THEN issue(a, <<"Missing meta description">>, 15)
        ELSE Sized(setMeta(a, "description",
                     JsObj([content |-> JsStr(trim(doc.description)),
                            length |-> JsNum(length[trim(doc.description)])])),
                   length[doc.description])
      Keywords(a) ==
        IF Present(doc.keywords) THEN setMeta(a, "keywords", JsStr(trim(doc.keywords)))
        ELSE a
      NoIndex(a) ==
        IF hasToken(doc.robots, "noindex")
        THEN warning(a, <<"Page is set to noindex - ensure this is intentional">>, 0)
        ELSE a
      NoFollow(a) ==
        IF hasToken(doc.robots, "nofollow")
        THEN warning(a, <<"Page is set to nofollow - this prevents link equity flow">>, 0)
        ELSE a
      Robots(a) ==
        IF Present(doc.robots)
        THEN NoFollow(NoIndex(setMeta(a, "robots", JsStr(trim(doc.robots)))))
        ELSE a
      DeviceWidth(a) ==
        IF ~hasToken(doc.viewport, "width=device-width")
        THEN warning(a, <<"Viewport should include width=device-width">>, 0)
        ELSE a
      InitialScale(a) ==
        IF ~hasToken(doc.viewport, "initial-scale=1")
        THEN warning(a, <<"Viewport should include initial-scale=1">>, 0)
        ELSE a
      Viewport(a) ==
        IF ~Present(doc.viewport)
        THEN issue(a, <<"Missing viewport meta tag - critical for mobile optimization">>, 10)
        ELSE InitialScale(DeviceWidth(setMeta(a, "viewport", JsStr(trim(doc.viewport)))))
      Charset(a) ==
        IF Present(doc.charset) THEN setMeta(a, "charset", JsStr(doc.charset)) ELSE a
  IN _extractTwitterCardTags(doc,
       _extractOpenGraphTags(doc,
         Charset(Viewport(Robots(Keywords(Described(r, Length)))))))

_extractCanonical(doc, r) ==
  LET Valid(a) ==
        IF NewURL(doc.canonical, None).threw
        THEN issue(a, <<"Invalid canonical URL format">>, 5)
        ELSE a
  IN IF ~Present(doc.canonical)
     THEN warning(r, <<"No canonical URL found - consider adding to prevent duplicate content issues">>, 5)
     ELSE Valid(setMeta(r, "canonical", JsStr(trim(doc.canonical))))

_extractHeadings(doc, r) ==
  LET NonEmpty(t) == trim(t) # ""
      TrimmedAll(kept) == [i \in 1..Len(kept) |-> trim(kept[i])]
      Texts(tag) == TrimmedAll(Filter(NonEmpty, doc.headings[tag]))
      H1(a, n) ==
        IF n = 0 THEN issue(a, <<"No H1 tag found - add exactly one H1 tag">>, 10)
        ELSE IF n > 1
        THEN warning(a, <<"Multiple H1 tags found (", ToString(n),
                          ") - use only one H1 per page">>, 5)
        ELSE a
      Counted(a) == H1(a, Len(a.headings["h1"]))
      Hierarchy(a) ==
        IF Len(a.headings["h3"]) > 0 /\ Len(a.headings["h2"]) = 0
        THEN warning(a, <<"H3 tags found without H2 - maintain proper heading hierarchy">>, 3)
        ELSE a
  IN Hierarchy(Counted(
       [r EXCEPT !.headings = [tag \in DOMAIN @ |-> @[tag] \o Texts(tag)]]))

_extractImages(doc, r) ==
  LET Attr(v) == IF Present(v) THEN v ELSE ""
      Image(acc, img) ==
        IF Present(img.src)
        THEN [acc EXCEPT
               !.images.total = @ + 1,
               !.images.images = Append(@, [src |-> img.src, alt |-> Attr(img.alt),
                                            title |-> Attr(img.title),
                                            width |-> Attr(img.width),
                                            height |-> Attr(img.height)]),
               !.images.withAlt = IF Present(img.alt) /\ trim(img.alt) # "" THEN @ + 1 ELSE @,
               !.images.withoutAlt = IF Present(img.alt) /\ trim(img.alt) # "" THEN @ ELSE @ + 1]
        ELSE acc
      WithoutAlt(a) ==
        IF a.images.withoutAlt > 0
        THEN issue(a, <<ToString(a.images.withoutAlt),
                        " images missing alt text - add descriptive alt text for accessibility and SEO">>,
                   Min(15, a.images.withoutAlt * 2))
        ELSE a
      NoSize(img) == img.width = "" \/ img.height = ""
      Dimensions(a, missingDimensions) ==
        IF missingDimensions > 0
        THEN warning(a, <<ToString(missingDimensions),
                          " images missing width/height attributes - add to prevent layout shift">>,
                     Min(5, missingDimensions))
        ELSE a
      Measured(a) == Dimensions(a, Len(Filter(NoSize, a.images.images)))
  IN Measured(WithoutAlt(FoldSeq(Image, r, doc.imgs)))

_extractLinks(doc, pageUrl, r) ==
  LET NoRel(a, rel) ==
        IF ~hasToken(rel, "nofollow") /\ ~hasToken(rel, "noopener")
        THEN [a EXCEPT !.externalLinksNoRel = JsNum((IF Truthy(@) THEN @.n ELSE 0) + 1)]
        ELSE a
      Counted(a, link, linkUrl) ==
        IF linkUrl.threw THEN a
        ELSE IF linkUrl.value.hostname = Hostname[pageUrl]
        THEN [a EXCEPT !.links.internal = @ + 1]
        ELSE NoRel([a EXCEPT !.links.external = @ + 1],
                   IF Present(link.rel) THEN link.rel ELSE "")
      Link(acc, link) ==
        IF ~Present(link.href) \/ link.href \in Fragments THEN acc
        ELSE Counted([acc EXCEPT !.links.total = @ + 1], link, NewURL(link.href, pageUrl))
      Reported(a) ==
        IF a.externalLinksNoRel.t = "number" /\ a.externalLinksNoRel.n > 0
        THEN [warning(a, <<ToString(a.externalLinksNoRel.n),
                           " external links missing rel=\"nofollow\" or rel=\"noopener\"">>, 0)
              EXCEPT !.externalLinksNoRel = JsUndefined]
        ELSE a
  IN Reported(FoldSeq(Link, r, doc.links))

_analyzeResults(r) ==
  LET Rec(cond, text) == IF cond THEN <<text>> ELSE <<>>
      Recommended(meta) ==
        Rec(~Truthy(meta["title"]),
            <<"Add a unique, descriptive page title between 30-60 characters">>)
        \o Rec(~Truthy(meta["description"]),
            <<"Add a compelling meta description between 120-160 characters">>)
        \o Rec(~Truthy(meta["viewport"]),
            <<"Add viewport meta tag: <meta name=viewport content=width=device-width, initial-scale=1>">>)
        \o Rec(~Truthy(meta["og:image"]),
            <<"Add Open Graph image for better social media sharing">>)
        \o Rec(Len(r.headings["h1"]) = 0,
            <<"Add an H1 tag that includes your target keywords">>)
        \o Rec(r.images.withoutAlt > 0,
            <<"Add descriptive alt text to all images for accessibility and SEO">>)
        \o <<<<"Consider adding structured data (Schema.org) for rich snippets">>>>
  IN [r EXCEPT !.recommendations = Recommended(r.meta)]

\* catch (error) of extract
ExtractCatch(r, message) ==
  [r EXCEPT !.status = "error",
            !.error = message,
            !.issues = Append(@, <<"Failed to analyze URL: ">> \o message)]

\* extract from the point where axios.get settles to its return
extractResume(u, r, response) ==
  LET Call(a, method) ==
        IF method = "_extractTitle" THEN _extractTitle(response.data, a)
        ELSE IF method = "_extractMetaTags" THEN _extractMetaTags(response.data, a)
        ELSE IF method = "_extractCanonical" THEN _extractCanonical(response.data, a)
        ELSE IF method = "_extractHeadings" THEN _extractHeadings(response.data, a)
        ELSE IF method = "_extractImages" THEN _extractImages(response.data, a)
        ELSE IF method = "_extractLinks" THEN _extractLinks(response.data, u, a)
        ELSE _analyzeResults(a)
      Based(pageUrl) ==
        IF pageUrl.threw THEN Return(ExtractCatch(r, pageUrl.message))
        ELSE Return(FoldSeq(Call, r,
               <<"_extractTitle", "_extractMetaTags", "_extractCanonical",
                 "_extractHeadings", "_extractImages", "_extractLinks",
                 "_analyzeResults">>))
  IN IF response.rejected THEN Return(ExtractCatch(r, response.message))
     ELSE Based(IF u \in DOMAIN Hostname THEN Return(u)
                ELSE Throw(<<"Invalid URL">>, JsUndefined))

\* Array.prototype.join(separator) of pieces of text, as one text
RECURSIVE JoinWith(_, _)
JoinWith(texts, separator) ==
  IF texts = <<>> THEN <<>>
  ELSE IF Len(texts) = 1 THEN Head(texts)
  ELSE Head(texts) \o <<separator>> \o JoinWith(Tail(texts), separator)

\* the rows generateCSV builds, each cell as `${cell}` prints it
CsvRows(input) ==
  LET Content(m) == IF Truthy(m) /\ Truthy(Get(m, "content")) THEN Get(m, "content").s
                    ELSE ""
      Size(m) == IF Truthy(m) /\ Truthy(Get(m, "length")) THEN Get(m, "length").n ELSE 0
      Row(result) ==
        <<result.url,
          Content(result.meta["title"]),
          ToString(Size(result.meta["title"])),
          Content(result.meta["description"]),
          ToString(Size(result.meta["description"])),
          ToString(Len(result.headings["h1"])),
          ToString(result.images.total),
          ToString(result.images.withoutAlt),
          ToString(result.score),
          ToString(Len(result.issues)),
          ToString(Len(result.warnings))>>
      Rows(data) ==
        <<<<"URL", "Title", "Title Length", "Description", "Description Length",
            "H1 Count", "Images Total", "Images Without Alt", "Score", "Issues",
            "Warnings">>>>
          \o [i \in 1..Len(data) |-> Row(data[i])]
  IN Rows(IF "items" \in DOMAIN input THEN input.items ELSE <<input>>)

\* generateCSV(results): the text, as the pieces it is put together from
generateCSV(input) ==
  LET Cell(cell) == <<"\"", cell, "\"">>
      Line(row) == JoinWith([i \in 1..Len(row) |-> Cell(row[i])], ",")
      Text(rows) == JoinWith([i \in 1..Len(rows) |-> Line(rows[i])], "\n")
  IN Text(CsvRows(input))

(***************************************************************************)
(* PageSpeedAnalyzer.analyze and SEOAuditToolkit.audit                     *)
(***************************************************************************)
\* a mean that is cut off instead of rounded
FloorDiv(n, d) == n \div d

\* Math.round(n / d) for n >= 0, d > 0
RoundDiv(n, d) == (2 * n + d) \div (2 * d)

\* the results object analyze starts from
NewAnalyzeResults(u) ==
  [url |-> u, score |-> 0, status |-> Undefined, error |-> NoMessage,
   issues |-> [critical |-> 0, warnings |-> 0, passed |-> 0]]

\* the three Core Web Vitals, then opportunities and diagnostics as warnings
_countIssues(r, lighthouse) ==
  LET Vital(acc, status) ==
        IF status = "poor" THEN [acc EXCEPT !.issues.critical = @ + 1]
        ELSE IF status = "needs-improvement" THEN [acc EXCEPT !.issues.warnings = @ + 1]
        ELSE [acc EXCEPT !.issues.passed = @ + 1]
      Audits(a) ==
        [a EXCEPT !.issues.warnings = @ + lighthouse.opportunities + lighthouse.diagnostics]
  IN Audits(FoldSeq(Vital, r, lighthouse.vitals))

\* analyze from the point where the PageSpeed API request settles
analyzeResume(u, response) ==
  LET Scored(r, lighthouse) ==
        Return(_countIssues([r EXCEPT !.score = lighthouse.performance], lighthouse))
      Settled(r) ==
        IF response.rejected
        THEN Return([r EXCEPT !.error = response.message, !.status = "error"])
        ELSE IF "lighthouseResult" \notin DOMAIN response.data THEN Return(r)
        ELSE Scored(r, response.data.lighthouseResult)
  IN Settled(NewAnalyzeResults(u))

\* SEOAuditToolkit._calculateScore: mean of the checks' scores, summed issues
AuditCalculateScore(r) ==
  LET Ran(name) == name \in DOMAIN r.checks
      Counts(name) == name \in DOMAIN r.checks /\ name # "meta"
      Sum(acc, name) == acc + r.checks[name].score
      Crit(acc, name) == acc + r.checks[name].issues.critical
      Warn(acc, name) == acc + r.checks[name].issues.warnings
      Pass(acc, name) == acc + r.checks[name].issues.passed
      Totals(ran, counted) ==
        [r EXCEPT !.score = IF Len(ran) > 0 THEN RoundDiv(FoldSeq(Sum, 0, ran), Len(ran))
                            ELSE 0,
                  !.issues = [critical |-> FoldSeq(Crit, 0, counted),
                              warnings |-> FoldSeq(Warn, 0, counted),
                              passed |-> FoldSeq(Pass, 0, counted)]]
      Entries(names) == Totals(Filter(Ran, names), Filter(Counts, names))
  IN Entries(<<"pageSpeed", "meta", "structuredData">>)

\* the results object audit starts from
NewAuditResults(u) ==
  [url |-> u, checks |-> <<>>, score |-> 0, status |-> Undefined, error |-> NoMessage,
   issues |-> [critical |-> 0, warnings |-> 0, passed |-> 0]]

\* audit(url, checks); responses gives, per check, how its request settles
audit(u, checks, responses) ==
  LET Awaited(acc, check, inner) ==
        IF inner.threw THEN Throw(inner.message, acc.value)
        ELSE Return([acc.value EXCEPT !.checks = (check :> inner.value) @@ @])
      Run(acc, check) ==
        IF acc.threw THEN acc
        ELSE IF check = "pageSpeed"
        THEN Awaited(acc, check, analyzeResume(u, responses.pageSpeed))
        ELSE IF check = "meta"
        THEN Awaited(acc, check, extractResume(u, NewExtractResults(u), responses.meta))
        ELSE IF check = "structuredData"
        THEN Awaited(acc, check,
                     parseResume(u, NewParseResults(u), responses.structuredData))
        ELSE acc
      Settled(ran) ==
        IF ran.threw
        THEN Return([ran.value EXCEPT !.error = ran.message, !.status = "error"])
        ELSE Return(AuditCalculateScore(ran.value))
  IN Settled(FoldSeq(Run, Return(NewAuditResults(u)),
                     IF checks = None THEN <<"pageSpeed", "meta", "structuredData">>
                     ELSE checks))

\* number of requests one audit issues
AuditFetches(checks) ==
  LET Known(c) == c \in {"pageSpeed", "meta", "structuredData"}
  IN Len(Filter(Known, IF checks = None THEN <<"pageSpeed", "meta", "structuredData">>
                       ELSE checks))

\* generateReport(results, format): the three formats are rendered from the
\* results, any other format throws
generateReport(r, format) ==
  IF format \in {"json", "text", "html"} THEN Return([format |-> format, of |-> r])
  ELSE Throw(<<"Unsupported format: ", format>>, r)


(***************************************************************************)
(* Documents and responses the environment may serve                       *)
(***************************************************************************)
Rejected(message) == [rejected |-> TRUE, message |-> message]
Resolved(data) == [rejected |-> FALSE, data |-> data]

FetchFailures == {<<"Network error">>, <<"timeout of 10000ms exceeded">>}

\* n copies of x
Rep(x, n) == [i \in 1..n |-> x]

\* sequences over S of length at most n
SeqUpTo(S, n) == UNION {[1..k -> S] : k \in 0..n}

\* JSON-LD script blocks
Malformed == [kind |-> "malformed"]
Json(v) == [kind |-> "json", json |-> v]

WidgetProduct ==
  JsObj(("@context" :> JsStr("https://schema.org")) @@ ("@type" :> JsStr("Product"))
        @@ ("name" :> JsStr("Widget")))

\* script blocks: malformed, a number, one schema, an array of two schemas
BlockKinds ==
  {Malformed, Json(JsNum(42)), Json(WidgetProduct),
   Json(JsArr(<<JsObj(("@type" :> JsStr("Organization")) @@ ("name" :> JsStr("Example"))
                      @@ ("url" :> JsStr("https://example.com/"))),
                JsObj(("@type" :> JsStr("WebSite")) @@ ("name" :> JsStr("Example")))>>))}

\* pages: JSON-LD blocks, elements with itemscope, elements with typeof
ParsePages ==
  [jsonLd : SeqUpTo(BlockKinds, MaxMixedBlocks)
              \cup {Rep(b, n) : b \in BlockKinds, n \in 1..MaxBlocks},
   microdata :
     {<<>>,
      <<[itemtype |-> Undefined, itemprops |-> <<>>]>>,
      <<[itemtype |-> "http://schema.org/Product",
         itemprops |-> <<[itemprop |-> "name", scopes |-> 1, itemscope |-> FALSE,
                          content |-> Undefined, src |-> Undefined, href |-> Undefined,
                          text |-> "  Widget  "]>>]>>},
   rdfa :
     {<<>>,
      <<[typeof |-> "Person", vocab |-> Undefined,
         props |-> <<[property |-> "name", content |-> Undefined, text |-> "Widget"]>>]>>}]

ParseUrls ==
  {"https://example.com/", "https://example.com/product/1", "https://example.com/about"}

\* longest list of itemprop elements below one item
MaxProps == 3

\* itemprop elements of an item of type Product: scopes is the number of
\* ancestors with itemscope, 1 for an element of the item itself and 2 for
\* an element of an item nested in it
ItemPropElements ==
  LET Elem(name, scopes, content, src, href, text) ==
        [itemprop |-> name, scopes |-> scopes, itemscope |-> FALSE,
         content |-> content, src |-> src, href |-> href, text |-> text]
  IN {Elem("name", 1, Undefined, Undefined, Undefined, "  Widget  "),
      Elem("name", 1, "Gadget", Undefined, Undefined, ""),
      Elem("name", 2, "Nested", Undefined, Undefined, ""),
      Elem("image", 1, Undefined, "https://example.com/a.png", Undefined, ""),
      Elem("url", 1, Undefined, Undefined, "https://example.com/product/1", "")}

\* URLs the rule methods are given: every bucket's path, and paths on which
\* two neighbouring rules of _detectPageType both match
RuleUrls ==
  {"https://example.com/", "https://example.com/about",
   "https://example.com/product/", "https://example.com/Home",
   "https://example.com/blog/item-7", "https://example.com/shop/article",
   "https://example.com/shop/faq", "https://example.com/faq/contact",
   "https://example.com/Events/contact"}

ParseResponses ==
  {Rejected(m) : m \in FetchFailures} \cup {Resolved(p) : p \in ParsePages}

(***************************************************************************)
(* Decoded records the rule methods may be given                           *)
(***************************************************************************)
\* longest list of identical list items (breadcrumb items, questions)
MaxItems == 4

Text == JsStr("text")

\* a property map holding a string for each of the names
With(names) == [k \in names |-> Text]

\* the record _processSchema builds
Record(format, type, properties) ==
  [format |-> format, type |-> type, properties |-> properties,
   validation |-> [errors |-> <<>>, warnings |-> <<>>]]

\* property maps by the rule method that reads them
Properties ==
  LET OfferValues ==
        {JsObj(With(S)) : S \in SUBSET {"price", "priceCurrency"}}
          \cup {JsObj(With({"priceRange"})),
                JsArr(<<JsObj(With({})), JsObj(With({"price", "priceCurrency"}))>>),
                JsArr(<<>>)}
      ListItems == {JsObj(With(S)) : S \in SUBSET {"position", "name"}}
      Questions ==
        {JsObj(With({})), JsObj(With({"name"})),
         JsObj(("acceptedAnswer" :> JsObj(With({}))) @@ With({"name"})),
         JsObj(("acceptedAnswer" :> JsObj(With({"text"}))) @@ With({"name"})),
         JsObj(("acceptedAnswer" :> JsObj(With({"text"}))))}
      Complete == {"headline", "author", "dateModified", "publisher",
                   "mainEntityOfPage", "description"}
  IN
  [Product |->
     {With(S) : S \in {{}, {"name"}, {"image"}, {"name", "image"},
                       {"name", "image", "review"},
                       {"name", "image", "aggregateRating"},
                       {"name", "image", "description", "sku", "brand",
                        "aggregateRating", "review"}}}
       \cup {("offers" :> o) @@ With({"name", "image"}) : o \in OfferValues}
       \cup {("name" :> v) @@ With({"image"}) : v \in {JsStr(""), JsNum(0), [t |-> "boolean", b |-> FALSE]}},
   Organization |->
     {With(S) : S \in {{}, {"name"}, {"name", "url"},
                       {"name", "url", "logo"},
                       {"name", "url", "sameAs", "contactPoint", "address"}}}
       \cup {("logo" :> JsObj(With({"url", "width", "height"})))
               @@ With({"name", "url", "sameAs", "contactPoint", "address"})},
   Article |->
     {With({}),
      ("datePublished" :> JsStr("2024-01-15")) @@ With({"headline", "image", "author"}),
      ("datePublished" :> JsStr("January 15, 2024")) @@ With({"headline", "image", "author"}),
      ("datePublished" :> JsStr("last week")) @@ With({"headline", "image", "author"}),
      ("datePublished" :> JsStr("2024-01-15T10:00:00Z")) @@ ("image" :> JsArr(<<>>))
        @@ With(Complete),
      ("datePublished" :> JsStr("2024-01-15")) @@ ("image" :> JsArr(<<Text, Text>>))
        @@ With(Complete)},
   BreadcrumbList |->
     {With({}), ("itemListElement" :> JsArr(<<>>))}
       \cup {("itemListElement" :> i) : i \in ListItems}
       \cup {("itemListElement" :> JsArr(<<i, j>>)) : i, j \in ListItems}
       \cup {("itemListElement" :> JsArr(Rep(i, n))) : i \in ListItems, n \in 1..MaxItems},
   FAQPage |->
     {With({})}
       \cup {("mainEntity" :> q) : q \in Questions}
       \cup {("mainEntity" :> JsArr(<<q, r>>)) : q, r \in Questions}
       \cup {("mainEntity" :> JsArr(Rep(q, n))) : q \in Questions, n \in 1..MaxItems},
   Recipe |->
     {With(S) : S \in {{}, {"name", "image"},
                       {"name", "image", "recipeIngredient", "recipeInstructions"},
                       {"name", "image", "recipeIngredient", "recipeInstructions",
                        "prepTime", "cookTime", "totalTime", "recipeYield",
                        "nutrition", "aggregateRating", "author", "description"}}},
   Event |->
     {With({}), With({"name", "location"})}
       \cup {("startDate" :> JsStr(d)) @@ With(S) :
               d \in {"2024-01-15", "next friday"},
               S \in {{"name", "location"},
                      {"name", "location", "endDate", "description", "image",
                       "performer", "offers"}}},
   Person |->
     {With(S) : S \in {{}, {"name"}, {"jobTitle"},
                       {"name", "image", "jobTitle", "worksFor", "sameAs", "url"}}},
   WebSite |->
     {With(S) : S \in {{}, {"name", "url"}, {"name", "url", "publisher"},
                       {"name", "url", "potentialAction"},
                       {"name", "url", "potentialAction", "publisher"}}},
   SearchAction |->
     {With({}), With({"query-input"}),
      ("target" :> JsStr("https://example.com/search?q={search_term_string}"))
        @@ With({"query-input"}),
      ("target" :> JsStr("https://example.com/search?q=query")) @@ With({"query-input"}),
      ("target" :> JsStr("https://example.com/search?q=query")),
      ("target" :> JsObj(With({"urlTemplate"}))) @@ With({"query-input"}),
      ("target" :> JsStr("")) @@ With({"query-input"})},
   Other |-> {With({}), With({"name"}), With({"name", "address", "telephone"})}]

\* the records of one format: every type with a rule method, the Article
\* subtypes, and types without one
RecordsOf(format) ==
  UNION {{Record(format, t, p) : p \in Properties[t]} :
                  t \in {"Product", "Organization", "Article", "BreadcrumbList", "FAQPage",
                         "Recipe", "Event", "Person", "WebSite", "SearchAction"}}
    \cup {Record(format, t, p) : t \in {"BlogPosting", "NewsArticle"},
                                 p \in Properties.Article}
    \cup {Record(format, t, p) : t \in {"LocalBusiness", "Offer", "Review", "Thing", "Unknown"},
                                 p \in Properties.Other}

\* the record lists a results object may hold: none, any one record, and
\* pairs of a Product with a breadcrumb list of another format
RecordLists ==
  {<<>>}
    \cup {<<s>> : s \in RecordsOf("JSON-LD") \cup RecordsOf("Microdata")}
    \cup {<<s, t>> :
            s \in {Record("JSON-LD", "Product", p) : p \in Properties.Product},
            t \in {Record("RDFa", "BreadcrumbList", p) : p \in Properties.BreadcrumbList}}

\* a results object as the three decoders leave it when they hold the records
Decoded(u, records) ==
  LET FormatField == "JSON-LD" :> "jsonLd" @@ "Microdata" :> "microdata" @@ "RDFa" :> "rdfa"
      Put(acc, s) ==
        [acc EXCEPT !.formats[FormatField[s.format]] = Append(@, s),
                    !.schemas = Append(@, s)]
  IN FoldSeq(Put, NewParseResults(u), records)

(***************************************************************************)
(* Documents MetaExtractor may be served                                   *)
(***************************************************************************)
\* longest run of identical img elements on a page
MaxImages == 8
\* longest list of URLs given to a bulk operation
MaxUrls == 2

\* title elements: around the bounds of 30 and 60 characters
Titles ==
  [missing |-> "", blank |-> "   ", generic |-> "Home", test |-> "Test",
   quoted |-> "Title with \"quotes\"",
   short |-> "Audit toolkit page title Audi",
   good |-> "Audit toolkit page title Audit",
   longest |-> "Audit toolkit page title Audit toolkit page title Audit tool",
   tooLong |-> "Audit toolkit page title Audit toolkit page title Audit toolk"]

\* meta descriptions: around the bounds of 120 and 160 characters
Descriptions ==
  [missing |-> Undefined, empty |-> "",
   short |-> "This page describes the audit toolkit This page describes the audit toolkit This page describes the audit toolkit This.",
   good |-> "This page describes the audit toolkit This page describes the audit toolkit This page describes the audit toolkit This p",
   longest |-> "This page describes the audit toolkit This page describes the audit toolkit This page describes the audit toolkit This page describes the audit toolkit This pag",
   tooLong |-> "This page describes the audit toolkit This page describes the audit toolkit This page describes the audit toolkit This page describes the audit toolkit This page"]

\* img elements: one with a src, alt, width and height, and its variants
Imgs ==
  LET Without(good) ==
        [good |-> good,
         noAlt |-> [good EXCEPT !.alt = Undefined],
         blankAlt |-> [good EXCEPT !.alt = "   "],
         noSize |-> [good EXCEPT !.width = Undefined],
         altOnly |-> [good EXCEPT !.width = Undefined, !.height = Undefined],
         bare |-> [good EXCEPT !.alt = Undefined, !.width = Undefined,
                               !.height = Undefined],
         noSrc |-> [good EXCEPT !.src = Undefined]]
  IN Without([src |-> "test.jpg", alt |-> "Test image", title |-> Undefined,
              width |-> "640", height |-> "480"])

Headings(h1, h2, h3) ==
  [t \in {"h1", "h2", "h3", "h4", "h5", "h6"} |->
     IF t = "h1" THEN h1 ELSE IF t = "h2" THEN h2 ELSE IF t = "h3" THEN h3 ELSE <<>>]

\* the page of the repository's extractor tests, with a title of 30 characters
ReferenceDoc ==
  LET Page(imgs) ==
        [title |-> Titles.good,
         description |-> Descriptions.good,
         keywords |-> "seo, audit, testing",
         robots |-> "index, follow",
         viewport |-> "width=device-width, initial-scale=1",
         charset |-> "UTF-8",
         og |-> ("title" :> "Test Page OG Title" @@ "description" :> "Test OG Description" @@
                 "image" :> "https://example.com/image.jpg" @@
                 "url" :> "https://example.com/test"),
         twitter |-> ("card" :> "summary_large_image" @@ "title" :> "Test Twitter Title"),
         canonical |-> "https://example.com/test-page",
         headings |-> Headings(<<"Main Heading">>, <<"Subheading 1", "Subheading 2">>,
                               <<"Sub-subheading">>),
         imgs |-> <<imgs.altOnly, imgs.altOnly, imgs.bare>>,
         links |-> <<[href |-> "/internal", rel |-> Undefined],
                     [href |-> "https://example.com/another", rel |-> Undefined],
                     [href |-> "https://external.com", rel |-> Undefined]>>]
  IN Page(Imgs)

\* the values each scored feature of a page takes
Features ==
  LET Of(page, titles, descriptions) ==
        [title |-> {titles.missing, titles.generic, titles.good, titles.tooLong},
         description |-> {descriptions.missing, descriptions.short, descriptions.good},
         viewport |-> {Undefined, page.viewport},
         og |-> {<<>>, page.og},
         twitter |-> {<<>>, page.twitter},
         canonical |-> {Undefined, page.canonical},
         headings |->
           {Headings(h1, h[1], h[2]) :
              h1 \in {<<>>, <<"Main Heading">>, <<"First H1", "Second H1">>},
              h \in {<<<<"Subheading 1", "Subheading 2">>, <<"Sub-subheading">>>>,
                     <<<<>>, <<"Sub-subheading">>>>}},
         imgs |-> {<<>>, page.imgs, Rep(page.imgs[3], MaxImages)}]
  IN Of(ReferenceDoc, Titles, Descriptions)

\* every combination of the scored features
MetaDocs ==
  LET Docs(page, features) ==
        {[page EXCEPT !.title = t, !.description = d, !.viewport = v, !.og = o,
                      !.twitter = w, !.canonical = c, !.headings = h, !.imgs = i] :
           t \in features.title, d \in features.description, v \in features.viewport,
           o \in features.og, w \in features.twitter, c \in features.canonical,
           h \in features.headings, i \in features.imgs}
  IN Docs(ReferenceDoc, Features)

\* the reference page changed in one feature
MetaVariants ==
  LET Variants(page, features, titles, descriptions, imgs) ==
        {page}
          \cup {[page EXCEPT !.title = titles[k]] : k \in DOMAIN titles}
          \cup {[page EXCEPT !.description = descriptions[k]] : k \in DOMAIN descriptions}
          \cup {[page EXCEPT !.viewport = v] : v \in features.viewport \cup {"width=1024"}}
          \cup {[page EXCEPT !.robots = v] : v \in {Undefined, "noindex, nofollow"}}
          \cup {[page EXCEPT !.og = o] :
                  o \in features.og \cup {"url" :> "https://example.com/test"}}
          \cup {[page EXCEPT !.twitter = w] : w \in features.twitter}
          \cup {[page EXCEPT !.canonical = c] : c \in features.canonical \cup {"/internal"}}
          \cup {[page EXCEPT !.headings = h] :
                  h \in features.headings
                        \cup {Headings(<<" Main Heading ", "   ">>, <<>>, <<>>)}}
          \cup {[page EXCEPT !.imgs = i] :
                  i \in {Rep(imgs.bare, n) : n \in 0..MaxImages}
                        \cup {Rep(imgs.noSize, n) : n \in 1..MaxImages}
                        \cup SeqUpTo({imgs.good, imgs.noAlt, imgs.blankAlt, imgs.noSize,
                                      imgs.noSrc}, 2)}
          \cup {[page EXCEPT !.links = l] :
                  l \in {<<>>,
                         page.links \o <<[href |-> "http://", rel |-> Undefined]>>,
                         <<[href |-> "#top", rel |-> Undefined],
                           [href |-> "", rel |-> Undefined],
                           [href |-> "mailto:info@example.com", rel |-> "author"]>>,
                         <<[href |-> "https://external.com", rel |-> "nofollow"],
                           [href |-> "https://external.com", rel |-> "noopener noreferrer"],
                           [href |-> "https://external.com", rel |-> ""]>>}}
  IN Variants(ReferenceDoc, Features, Titles, Descriptions, Imgs)

\* a page without a title element
TitlelessDoc == [ReferenceDoc EXCEPT !.title = ""]

MetaUrls == {"https://example.com/", "https://shop.example.com/faq"}

MetaResponses(docs) ==
  {Rejected(m) : m \in FetchFailures} \cup {Resolved(d) : d \in docs}

\* what the three requests of an audit may be answered with
AuditResponses ==
  [pageSpeed : {Rejected(<<"Request failed with status code 429">>),
                Resolved([id |-> "https://example.com/"]),
                Resolved([lighthouseResult |->
                  [performance |-> 90, vitals |-> <<"good", "poor", "needs-improvement">>,
                   opportunities |-> 2, diagnostics |-> 1]])},
   meta : {Rejected(<<"Network error">>), Resolved(ReferenceDoc)},
   structuredData :
     {Rejected(<<"Network error">>),
      Resolved([jsonLd |-> <<Json(WidgetProduct)>>, microdata |-> <<>>, rdfa |-> <<>>])}]

(***************************************************************************)
(* Calls                                                                   *)
(***************************************************************************)
\* the retries option an instance may be constructed with; 3 is the default
RetriesOptions == {0, 3}

\* a request that is issued again, up to the retries option
GetWithRetries(count, retries) == count + 1 + retries

\* axios.get(url, {timeout, headers}): one request, whatever the retries
\* option; count is the number of requests issued so far
get(count, retries) == count + 1

\* calls that may be in flight on one instance at a time
MaxCalls == 2

Callers == 1..MaxCalls

\* no call in flight
NoCalls ==
  [c \in Callers |-> [op |-> None, url |-> None, ref |-> 0, promise |-> None,
                      fetched |-> None, returned |-> None]]

\* what the fetch of a call in flight may be answered with
ConcurrentResponses(op) ==
  IF op = "parse"
  THEN {Rejected(<<"Network error">>),
        Resolved([jsonLd |-> <<>>, microdata |-> <<>>, rdfa |-> <<>>]),
        Resolved([jsonLd |-> <<Json(WidgetProduct)>>, microdata |-> <<>>, rdfa |-> <<>>]),
        Resolved([jsonLd |-> <<Malformed>>,
                  microdata |->
                    <<[itemtype |-> "http://schema.org/Product",
                       itemprops |-> <<[itemprop |-> "name", scopes |-> 1,
                                        itemscope |-> FALSE, content |-> Undefined,
                                        src |-> Undefined, href |-> Undefined,
                                        text |-> "  Widget  "]>>]>>,
                  rdfa |-> <<>>])}
  ELSE MetaResponses({ReferenceDoc, TitlelessDoc})

\* a call that reuses the results object of the call before it when that
\* call was of the same kind
AllocateOnce(objects, fresh) ==
  IF objects # <<>> /\ DOMAIN objects[Len(objects)] = DOMAIN fresh THEN objects
  ELSE Append(objects, fresh)

\* const results = {...}: every call creates its own results object
Allocate(objects, fresh) == Append(objects, fresh)

\* a call that works on the results object created last
DerefLatest(objects, ref) == objects[Len(objects)]

\* the results object the local variable of a call refers to
Deref(objects, ref) == objects[ref]

Init ==
  /\ pc = "idle"
  /\ url = None
  /\ fetched = None
  /\ results = None
  /\ promise = None
  /\ fetches = 0
  /\ bulk = None
  /\ scanner = <<>>
  /\ cli = None
  /\ calls = NoCalls
  /\ heap = <<>>
  /\ csv = None

\* parse(url) up to its await of axios.get
parse(u) ==
  /\ pc = "idle"
  /\ pc' = "parse_fetch"
  /\ url' = u
  /\ results' = NewParseResults(u)
  /\ promise' = "pending"
  /\ \E retries \in RetriesOptions : fetches' = get(fetches, retries)
  /\ UNCHANGED <<fetched, bulk, csv, heap, calls, cli, scanner>>

\* the fetch settles and parse runs to its return
ParseSettle(response) ==
  /\ pc = "parse_fetch"
  /\ LET Settled(out) ==
           /\ results' = out.value
           /\ promise' = IF out.threw THEN "rejected" ELSE "fulfilled"
     IN Settled(parseResume(url, results, response))
  /\ fetched' = response
  /\ pc' = "parse_done"
  /\ UNCHANGED <<url, fetches, bulk, csv, heap, calls, cli, scanner>>

\* extract(url) up to its await of axios.get
extract(u) ==
  /\ pc = "idle"
  /\ pc' = "extract_fetch"
  /\ url' = u
  /\ results' = NewExtractResults(u)
  /\ promise' = "pending"
  /\ \E retries \in RetriesOptions : fetches' = get(fetches, retries)
  /\ UNCHANGED <<fetched, bulk, csv, heap, calls, cli, scanner>>

\* the fetch settles and extract runs to its return
ExtractSettle(response) ==
  /\ pc = "extract_fetch"
  /\ LET Settled(out) ==
           /\ results' = out.value
           /\ promise' = IF out.threw THEN "rejected" ELSE "fulfilled"
     IN Settled(extractResume(url, results, response))
  /\ fetched' = response
  /\ pc' = "extract_done"
  /\ UNCHANGED <<url, fetches, bulk, csv, heap, calls, cli, scanner>>

\* parse(url) or extract(url) is called while other calls may be suspended at
\* their fetch; it runs up to its own await of axios.get
StartCall(c, op, u) ==
  /\ calls[c].promise = None
  /\ heap' = Allocate(heap, IF op = "parse" THEN NewParseResults(u)
                            ELSE NewExtractResults(u))
  /\ calls' = [calls EXCEPT ![c] = [op |-> op, url |-> u, ref |-> Len(heap'),
                                    promise |-> "pending", fetched |-> None,
                                    returned |-> None]]
  /\ UNCHANGED <<pc, url, fetched, results, promise, fetches, bulk, csv, cli, scanner>>

\* the fetch of one suspended call settles and that call runs to its return
SettleCall(c) ==
  /\ calls[c].promise = "pending"
  /\ \E response \in ConcurrentResponses(calls[c].op) :
       LET Settled(out) ==
             /\ heap' = [heap EXCEPT ![calls[c].ref] = out.value]
             /\ calls' = [calls EXCEPT
                            ![c].promise = IF out.threw THEN "rejected" ELSE "fulfilled",
                            ![c].fetched = response,
                            ![c].returned = out.value]
       IN Settled(IF calls[c].op = "parse"
                  THEN parseResume(calls[c].url, Deref(heap, calls[c].ref), response)
                  ELSE extractResume(calls[c].url, Deref(heap, calls[c].ref), response))
  /\ UNCHANGED <<pc, url, fetched, results, promise, fetches, bulk, csv, cli, scanner>>

\* the callers have their results and drop them
ReleaseCalls ==
  /\ \E c \in Callers : calls[c].promise \notin {None, "pending"}
  /\ \A c \in Callers : calls[c].promise # "pending"
  /\ heap' = <<>>
  /\ calls' = NoCalls
  /\ UNCHANGED <<pc, url, fetched, results, promise, fetches, bulk, csv, cli, scanner>>

\* a caller hands the rule methods a results object holding decoded records
Decode(u, records) ==
  /\ pc = "idle"
  /\ pc' = "rules_decoded"
  /\ url' = u
  /\ results' = Decoded(u, records)
  /\ UNCHANGED <<fetched, promise, fetches, bulk, csv, heap, calls, cli, scanner>>

CallValidateSchemas ==
  /\ pc = "rules_decoded"
  /\ pc' = "rules_validated"
  /\ results' = _validateSchemas(results)
  /\ UNCHANGED <<url, fetched, promise, fetches, bulk, csv, heap, calls, cli, scanner>>

CallAnalyzeAndRecommend ==
  /\ pc = "rules_validated"
  /\ pc' = "rules_recommended"
  /\ results' = _analyzeAndRecommend(url, results)
  /\ UNCHANGED <<url, fetched, promise, fetches, bulk, csv, heap, calls, cli, scanner>>

CallCalculateScore ==
  /\ pc = "rules_recommended"
  /\ pc' = "rules_scored"
  /\ results' = _calculateScore(results)
  /\ UNCHANGED <<url, fetched, promise, fetches, bulk, csv, heap, calls, cli, scanner>>

\* a loop that goes on without keeping the result of the URL it has done
PushNothing(array, item) == array

\* results.push(result)
push(array, item) == Append(array, item)

\* bulkExtract(urls) up to the first extract's await of axios.get
bulkExtract(urls) ==
  /\ pc = "idle"
  /\ bulk' = [op |-> "bulkExtract", urls |-> urls, checks |-> None, i |-> 1,
              responses |-> <<>>, out |-> <<>>]
  /\ IF urls = <<>>
     THEN /\ pc' = "bulk_done"
          /\ promise' = "fulfilled"
          /\ UNCHANGED <<results, fetches>>
     ELSE /\ pc' = "bulk_fetch"
          /\ promise' = "pending"
          /\ results' = NewExtractResults(urls[1])
          /\ \E retries \in RetriesOptions : fetches' = get(fetches, retries)
  /\ UNCHANGED <<url, fetched, csv, heap, calls, cli, scanner>>

\* the fetch of the current URL settles; its result is pushed and the delay starts
BulkExtractSettle(response) ==
  /\ pc = "bulk_fetch"
  /\ LET Settled(out) ==
           IF out.threw
           THEN /\ pc' = "bulk_done"
                /\ promise' = "rejected"
                /\ bulk' = [bulk EXCEPT !.responses = Append(@, response)]
           ELSE /\ pc' = "bulk_delay"
                /\ promise' = promise
                /\ bulk' = [bulk EXCEPT !.responses = Append(@, response),
                                        !.out = push(@, out.value)]
     IN Settled(extractResume(bulk.urls[bulk.i], results, response))
  /\ results' = None
  /\ UNCHANGED <<url, fetched, fetches, csv, heap, calls, cli, scanner>>

\* bulkAnalyze(urls, checks) up to the await of the first audit
bulkAnalyze(urls, checks) ==
  /\ pc = "idle"
  /\ bulk' = [op |-> "bulkAnalyze", urls |-> urls, checks |-> checks, i |-> 1,
              responses |-> <<>>, out |-> <<>>]
  /\ IF urls = <<>>
     THEN pc' = "bulk_done" /\ promise' = "fulfilled"
     ELSE pc' = "bulk_audit" /\ promise' = "pending"
  /\ UNCHANGED <<url, fetched, results, fetches, csv, heap, calls, cli, scanner>>

\* the audit of the current URL settles; a rejection is turned into an
\* error entry; the entry is pushed and the delay starts
BulkAuditSettle(responses) ==
  /\ pc = "bulk_audit"
  /\ LET Entry(u, out) ==
           IF out.threw
           THEN [url |-> u, error |-> out.message, status |-> "error"]
           ELSE out.value
         Audited(u) == Entry(u, audit(u, bulk.checks, responses))
     IN bulk' = [bulk EXCEPT !.responses = Append(@, responses),
                             !.out = push(@, Audited(bulk.urls[bulk.i]))]
  /\ pc' = "bulk_delay"
  /\ fetches' = fetches + AuditFetches(bulk.checks)
  /\ UNCHANGED <<url, fetched, results, promise, csv, heap, calls, cli, scanner>>

\* the one-second timer fires: the loop goes on to the next URL or returns
BulkDelay ==
  /\ pc = "bulk_delay"
  /\ IF bulk.i < Len(bulk.urls)
     THEN /\ bulk' = [bulk EXCEPT !.i = @ + 1]
          /\ promise' = promise
          /\ IF bulk.op = "bulkExtract"
             THEN /\ pc' = "bulk_fetch"
                  /\ results' = NewExtractResults(bulk.urls[bulk.i + 1])
                  /\ \E retries \in RetriesOptions : fetches' = get(fetches, retries)
             ELSE /\ pc' = "bulk_audit"
                  /\ UNCHANGED <<results, fetches>>
     ELSE /\ pc' = "bulk_done"
          /\ promise' = "fulfilled"
          /\ UNCHANGED <<bulk, results, fetches>>
  /\ UNCHANGED <<url, fetched, csv, heap, calls, cli, scanner>>

\* the caller renders what bulkExtract resolved with, the whole array or
\* one of its results, as CSV
CallGenerateCSV ==
  /\ pc = "bulk_done"
  /\ bulk.op = "bulkExtract"
  /\ promise = "fulfilled"
  /\ pc' = "csv_done"
  /\ \E input \in {JsArr(bulk.out)} \cup {bulk.out[i] : i \in 1..Len(bulk.out)} :
       csv' = [input |-> input, text |-> generateCSV(input)]
  /\ UNCHANGED <<url, fetched, results, promise, fetches, bulk, heap, calls, cli, scanner>>

\* _extractMicrodataProperties is given the itemprop elements found below
\* an item and the schema object _parseMicrodata has built for it
CallExtractMicrodataProperties(props) ==
  /\ pc = "idle"
  /\ pc' = "microdata_extracted"
  /\ fetched' = props
  /\ LET Extracted(out) ==
           /\ results' = out.value
           /\ promise' = IF out.threw THEN "rejected" ELSE "fulfilled"
     IN Extracted(_extractMicrodataProperties(props,
          JsObj(("@type" :> JsStr("Product"))
                @@ ("@context" :> JsStr("http://schema.org"))
                @@ ("_format" :> JsStr("Microdata")))))
  /\ UNCHANGED <<url, fetches, bulk, csv, heap, calls, cli, scanner>>

\* node index.js <args>: without arguments the usage is printed and the
\* process exits with 1; otherwise toolkit.audit(url) is started
runCli(args) ==
  /\ pc = "idle"
  /\ IF args = <<>>
     THEN /\ pc' = "cli_done"
          /\ cli' = [args |-> args, format |-> None, exited |-> TRUE, exitCode |-> 1,
                     report |-> FALSE]
          /\ UNCHANGED <<url, promise>>
     ELSE /\ pc' = "cli_audit"
          /\ cli' = [args |-> args, format |-> IF Len(args) > 1 THEN args[2] ELSE "json",
                     exited |-> FALSE, exitCode |-> 0, report |-> FALSE]
          /\ url' = args[1]
          /\ promise' = "pending"
  /\ UNCHANGED <<fetched, results, fetches, bulk, csv, heap, calls, scanner>>

\* the requests of the audit settle: .then renders and prints the report, a
\* throw in it reaches .catch, which exits with 1; otherwise the process
\* ends when nothing is left to run, with exit code 0
CliSettle(responses) ==
  /\ pc = "cli_audit"
  /\ pc' = "cli_done"
  /\ LET Printed(out, report) ==
           /\ results' = out.value
           /\ promise' = IF out.threw THEN "rejected" ELSE "fulfilled"
           /\ cli' = [cli EXCEPT !.exited = TRUE,
                                 !.exitCode = IF out.threw \/ report.threw THEN 1 ELSE 0,
                                 !.report = ~out.threw /\ ~report.threw]
         Audited(out) == Printed(out, generateReport(out.value, cli.format))
     IN Audited(audit(url, None, responses))
  /\ fetched' = responses
  /\ fetches' = fetches + AuditFetches(None)
  /\ UNCHANGED <<url, bulk, csv, heap, calls, scanner>>

\* FullSiteScan (examples/full-site-scan.js).  new URL(u) of the page URLs
\* of the crawl: protocol, host (with the port), hostname and pathname
UrlParts ==
  "https://example.com" :>
    [protocol |-> "https:", host |-> "example.com", hostname |-> "example.com",
     pathname |-> "/"] @@
  "https://example.com/" :>
    [protocol |-> "https:", host |-> "example.com", hostname |-> "example.com",
     pathname |-> "/"] @@
  "https://example.com/about" :>
    [protocol |-> "https:", host |-> "example.com", hostname |-> "example.com",
     pathname |-> "/about"] @@
  "https://example.com:8080/" :>
    [protocol |-> "https:", host |-> "example.com:8080", hostname |-> "example.com",
     pathname |-> "/"] @@
  "https://example.com:8080/about" :>
    [protocol |-> "https:", host |-> "example.com:8080", hostname |-> "example.com",
     pathname |-> "/about"] @@
  "https://external.com/" :>
    [protocol |-> "https:", host |-> "external.com", hostname |-> "external.com",
     pathname |-> "/"]

\* the href attributes of the crawled pages' anchors: whether the href
\* begins with '#' or 'mailto:', whether new URL(href, base) accepts it,
\* whether it is relative, the absolute URL it names and its pathname
Anchors ==
  "" :> [skipped |-> FALSE, valid |-> TRUE, relative |-> TRUE,
         absolute |-> None, pathname |-> None] @@
  "#top" :> [skipped |-> TRUE, valid |-> TRUE, relative |-> TRUE,
             absolute |-> None, pathname |-> None] @@
  "mailto:info@example.com" :> [skipped |-> TRUE, valid |-> TRUE, relative |-> FALSE,
                                absolute |-> None, pathname |-> None] @@
  "http://" :> [skipped |-> FALSE, valid |-> FALSE, relative |-> FALSE,
                absolute |-> None, pathname |-> None] @@
  "/" :> [skipped |-> FALSE, valid |-> TRUE, relative |-> TRUE,
          absolute |-> None, pathname |-> "/"] @@
  "/about?ref=nav" :> [skipped |-> FALSE, valid |-> TRUE, relative |-> TRUE,
                       absolute |-> None, pathname |-> "/about"] @@
  "https://example.com/about#team" :>
    [skipped |-> FALSE, valid |-> TRUE, relative |-> FALSE,
     absolute |-> "https://example.com/about", pathname |-> "/about"] @@
  "https://example.com:8080/about" :>
    [skipped |-> FALSE, valid |-> TRUE, relative |-> FALSE,
     absolute |-> "https://example.com:8080/about", pathname |-> "/about"] @@
  "https://external.com/" :>
    [skipped |-> FALSE, valid |-> TRUE, relative |-> FALSE,
     absolute |-> "https://external.com/", pathname |-> "/"]

\* Set.prototype.has
HasNothing(set, value) == FALSE

has(set, value) == value \in set

\* Array.prototype.shift: the array that is left
KeepQueue(array) == array

shift(array) == Tail(array)

\* FullSiteScan.extractLinks(url) once its request settled: the scanner s
\* with the page's same-hostname links queued.  cleanUrl is the template
\* literal `${linkUrl.protocol}//${linkUrl.host}${linkUrl.pathname}`
extractLinks(s, pageUrl, response) ==
  LET cleanUrl(linkUrl) ==
        CHOOSE u \in DOMAIN UrlParts \ {"https://example.com"} :
          /\ UrlParts[u].protocol = linkUrl.protocol
          /\ UrlParts[u].host = linkUrl.host
          /\ UrlParts[u].pathname = linkUrl.pathname
      Resolved2(a) ==
        IF a.relative THEN [UrlParts[pageUrl] EXCEPT !.pathname = a.pathname]
        ELSE UrlParts[a.absolute]
      Queue(acc, clean) ==
        IF /\ ~has(acc.visitedUrls, clean)
           /\ ~(\E i \in 1..Len(acc.urlsToVisit) : acc.urlsToVisit[i] = clean)
           /\ Cardinality(acc.visitedUrls) + Len(acc.urlsToVisit) < acc.maxPages
        THEN [acc EXCEPT !.urlsToVisit = Append(@, clean)]
        ELSE acc
      Internal(acc, linkUrl) ==
        IF linkUrl.hostname = acc.domain THEN Queue(acc, cleanUrl(linkUrl)) ELSE acc
      Link(acc, href) ==
        IF href = "" \/ Anchors[href].skipped THEN acc
        ELSE IF ~Anchors[href].valid THEN acc
        ELSE Internal(acc, Resolved2(Anchors[href]))
  IN IF response.rejected THEN [s EXCEPT !.failed = @ \cup {pageUrl}]
     ELSE FoldSeq(Link, s, response.data)

\* new FullSiteScan({maxPages}).scan(baseUrl): a base URL new URL rejects
\* reaches the catch and the process exits with 1; otherwise the base URL
\* is queued and the crawl loop is entered.  Beside the instance's fields
\* the record keeps the page being scanned (url), the URLs toolkit.audit
\* was called with (audited), the pages whose scan met a failed request or
\* a throw (failed) and the number of reports generated (reports)
scan(baseUrl, maxPages) ==
  /\ pc = "idle"
  /\ LET Made(s) ==
           IF baseUrl \in DOMAIN UrlParts
           THEN /\ pc' = "scan_loop"
                /\ scanner' = [s EXCEPT !.domain = UrlParts[baseUrl].hostname,
                                        !.urlsToVisit = <<baseUrl>>]
           ELSE /\ pc' = "scan_done"
                /\ scanner' = [s EXCEPT !.exitCode = 1]
     IN Made([maxPages |-> IF maxPages = 0 THEN 10 ELSE maxPages,
              visitedUrls |-> {}, urlsToVisit |-> <<>>, results |-> <<>>,
              domain |-> "", baseUrl |-> baseUrl, url |-> None, audited |-> <<>>,
              failed |-> {},
              reports |-> 0, summary |-> None, exitCode |-> 0])
  /\ UNCHANGED <<url, fetched, results, promise, fetches, bulk, csv, heap, calls, cli>>

\* one test of the crawl loop's condition: the next URL is taken off the
\* queue and, unless visited, its scan starts; when the loop is left the
\* report is generated (generateReport: the summary of the stored results;
\* the report files are taken to be written)
ScanLoop ==
  /\ pc = "scan_loop"
  /\ IF scanner.urlsToVisit # <<>> /\ Cardinality(scanner.visitedUrls) < scanner.maxPages
     THEN LET Next1(u) ==
                IF ~has(scanner.visitedUrls, u)
                THEN /\ pc' = "scan_audit"
                     /\ scanner' = [scanner EXCEPT !.urlsToVisit = shift(@), !.url = u]
                ELSE /\ pc' = "scan_loop"
                     /\ scanner' = [scanner EXCEPT !.urlsToVisit = shift(@)]
          IN Next1(Head(scanner.urlsToVisit))
     ELSE LET Add(total, result) == total + result.score
              Summary(pages) ==
                [totalPages |-> Len(pages),
                 averageScore |-> IF pages = <<>> THEN None
                                  ELSE RoundDiv(FoldSeq(Add, 0, pages), Len(pages))]
          IN /\ pc' = "scan_done"
             /\ scanner' = [scanner EXCEPT !.reports = @ + 1,
                                           !.summary = Summary(scanner.results)]
  /\ UNCHANGED <<url, fetched, results, promise, fetches, bulk, csv, heap, calls, cli>>

\* scanPage(url): the audit's requests settle, all three failing or all
\* three answered; its result is stored and the page is requested again for
\* its links.  A throw skips both
scanPage ==
  /\ pc = "scan_audit"
  /\ \E responses \in
        {r \in AuditResponses :
           \/ r.pageSpeed.rejected /\ r.meta.rejected /\ r.structuredData.rejected
           \/ ~r.meta.rejected /\ ~r.structuredData.rejected /\ ~r.pageSpeed.rejected
              /\ "lighthouseResult" \in DOMAIN r.pageSpeed.data} :
     LET Audited(out) ==
           IF out.threw
           THEN /\ pc' = "scan_loop"
                /\ scanner' = [scanner EXCEPT !.audited = Append(@, scanner.url),
                                              !.failed = @ \cup {scanner.url},
                                              !.visitedUrls = @ \cup {scanner.url},
                                              !.url = None]
           ELSE /\ pc' = "scan_links"
                /\ scanner' = [scanner EXCEPT !.audited = Append(@, scanner.url),
                                              !.results = push(@, out.value)]
     IN Audited(audit(scanner.url, <<"pageSpeed", "meta", "structuredData">>, responses))
  /\ fetches' = fetches + AuditFetches(<<"pageSpeed", "meta", "structuredData">>)
  /\ UNCHANGED <<url, fetched, results, promise, bulk, csv, heap, calls, cli>>

\* the request of extractLinks settles, failing or answered with a page
\* that carries one of the lists of anchors; back in the loop the page is
\* added to the visited set
ExtractLinksSettle ==
  /\ pc = "scan_links"
  /\ pc' = "scan_loop"
  /\ \E response \in
        {Rejected(<<"timeout of 10000ms exceeded">>)}
        \cup {Resolved(links) : links \in
                {<<>>,
                 <<"/", "/about?ref=nav", "#top">>,
                 <<"https://example.com/about#team", "https://external.com/",
                   "mailto:info@example.com", "/">>,
                 <<"https://example.com:8080/about", "http://", "", "/about?ref=nav">>}} :
     LET Visited(s) == [s EXCEPT !.visitedUrls = @ \cup {scanner.url}, !.url = None]
     IN scanner' = Visited(extractLinks(scanner, scanner.url, response))
  /\ fetches' = fetches + 1
  /\ UNCHANGED <<url, fetched, results, promise, bulk, csv, heap, calls, cli>>

\* the caller takes the settled promise
Finish ==
  /\ pc \in {"parse_done", "extract_done", "rules_scored", "bulk_done", "csv_done", "cli_done",
            "microdata_extracted", "scan_done"}
  /\ pc' = "idle"
  /\ url' = None
  /\ fetched' = None
  /\ results' = None
  /\ promise' = None
  /\ fetches' = 0
  /\ bulk' = None
  /\ scanner' = <<>>
  /\ cli' = None
  /\ calls' = NoCalls
  /\ heap' = <<>>
  /\ csv' = None

Next ==
  \/ \E u \in ParseUrls : parse(u)
  \/ \E response \in ParseResponses : ParseSettle(response)
  \/ \E u \in MetaUrls : extract(u)
  \/ \E response \in MetaResponses(MetaVariants) : ExtractSettle(response)
  \/ \E u \in RuleUrls, records \in RecordLists : Decode(u, records)
  \/ CallValidateSchemas
  \/ CallAnalyzeAndRecommend
  \/ CallCalculateScore
  \/ Finish

Spec == Init /\ [][Next]_vars

\* extract over every combination of the scored features
NextMeta ==
  \/ \E u \in MetaUrls : extract(u)
  \/ \E response \in MetaResponses(MetaDocs) : ExtractSettle(response)
  \/ Finish

SpecMeta == Init /\ [][NextMeta]_vars

\* the bulk operations
NextBulk ==
  \/ \E urls \in SeqUpTo(MetaUrls, MaxUrls) : bulkExtract(urls)
  \/ \E response \in MetaResponses({ReferenceDoc, TitlelessDoc,
                                     [ReferenceDoc EXCEPT !.title = Titles.quoted]}) :
        BulkExtractSettle(response)
  \/ \E urls \in SeqUpTo(MetaUrls, MaxUrls),
        checks \in {None, <<"meta">>, <<"structuredData", "sitemap">>, <<"sitemap">>} :
        bulkAnalyze(urls, checks)
  \/ \E responses \in AuditResponses : BulkAuditSettle(responses)
  \/ BulkDelay
  \/ CallGenerateCSV
  \/ Finish

SpecBulk == Init /\ [][NextBulk]_vars

\* parse and extract calls interleaved at their fetches on one instance
NextConcurrent ==
  \/ \E c \in Callers, op \in {"parse", "extract"}, u \in MetaUrls : StartCall(c, op, u)
  \/ \E c \in Callers : SettleCall(c)
  \/ ReleaseCalls

SpecConcurrent == Init /\ [][NextConcurrent]_vars

\* single calls and bulkExtract, for counting the requests they issue
NextFetch ==
  \/ \E u \in ParseUrls : parse(u)
  \/ \E response \in ParseResponses : ParseSettle(response)
  \/ \E u \in MetaUrls : extract(u)
  \/ \E response \in MetaResponses({ReferenceDoc, TitlelessDoc}) : ExtractSettle(response)
  \/ \E urls \in SeqUpTo(MetaUrls, MaxUrls) : bulkExtract(urls)
  \/ \E response \in MetaResponses({ReferenceDoc, TitlelessDoc}) :
        BulkExtractSettle(response)
  \/ BulkDelay
  \/ Finish

SpecFetch == Init /\ [][NextFetch]_vars

\* the command line
NextCli ==
  \/ \E args \in {<<>>} \cup {<<u>> : u \in MetaUrls}
                 \cup {<<u, f>> : u \in MetaUrls, f \in {"json", "text", "html", "xml"}} : runCli(args)
  \/ \E responses \in AuditResponses : CliSettle(responses)
  \/ Finish

SpecCli == Init /\ [][NextCli]_vars

\* the properties of one Microdata item
NextMicrodata ==
  \/ \E props \in SeqUpTo(ItemPropElements, MaxProps) :
        CallExtractMicrodataProperties(props)
  \/ Finish

SpecMicrodata == Init /\ [][NextMicrodata]_vars

\* most pages a scan is asked for
MaxPages == 3

\* scans of a small site
NextScan ==
  \/ \E baseUrl \in {"https://example.com", "https://example.com/", "example.com"},
        maxPages \in 0..MaxPages : scan(baseUrl, maxPages)
  \/ ScanLoop
  \/ scanPage
  \/ ExtractLinksSettle
  \/ Finish

SpecScan == Init /\ [][NextScan]_vars

\* scans in which the loop runs and every request settles
FairScan ==
  /\ Init
  /\ [][NextScan]_vars
  /\ WF_vars(ScanLoop)
  /\ WF_vars(scanPage)
  /\ WF_vars(ExtractLinksSettle)

(***************************************************************************)
(* Properties                                                              *)
(***************************************************************************)
\* C1: every result parse returns, whatever the page held, has an integer
\* score between 0 and 100; the same holds after the rule methods have run
\* over decoded records.
C1_ParseScoreInRange ==
  pc \in {"parse_done", "rules_scored"} => results.score \in 0..100

\* a completed parse of seven JSON-LD blocks: 100 - 7 * 15 is clamped to 0
C1_Witness ==
  /\ pc = "parse_done"
  /\ results.status = "completed"
  /\ Len(results.validation.errors) = MaxBlocks
  /\ results.score = 0

\* C2: after a completed parse the score is
\* min(100, max(0, 100 - 15 E - 5 W + B1 + B2)), E and W the numbers of
\* validation errors and warnings, B1 = 10 with any record, B2 = 5 with a
\* JSON-LD record.
C2_ScoreFormula ==
  (pc \in {"parse_done", "rules_scored"} /\ results.status = "completed") =>
    LET E == Len(results.validation.errors)
        W == Len(results.validation.warnings)
        B1 == IF Len(results.schemas) > 0 THEN 10 ELSE 0
        B2 == IF Len(results.formats.jsonLd) > 0 THEN 5 ELSE 0
    IN results.score = Min(100, Max(0, 100 - 15 * E - 5 * W + B1 + B2))

\* errors, warnings and both bonuses enter one score
C2_Witness ==
  /\ pc = "rules_scored"
  /\ Len(results.validation.errors) = 3
  /\ Len(results.validation.warnings) = 2
  /\ Len(results.formats.jsonLd) = 1
  /\ Len(results.formats.rdfa) = 1
  /\ results.score = 60

\* C3: when the fetch fails, parse and extract resolve with a result whose
\* status is "error" and whose error field is the failure message.
C3_FetchFailureIsReported ==
  (pc \in {"parse_done", "extract_done"} /\ fetched.rejected) =>
    /\ promise = "fulfilled"
    /\ results.status = "error"
    /\ results.error = fetched.message

C3_Witness ==
  /\ pc = "extract_done"
  /\ fetched.rejected
  /\ promise = "fulfilled"
  /\ results.error = <<"Network error">>

\* C4: a page with one malformed and one valid JSON-LD block, in either
\* order, gives exactly one "Invalid JSON-LD" error with critical = 1, one
\* record in formats.jsonLd and in schemas, and status "completed".
C4_MalformedBlockDoesNotStopValidBlock ==
  (/\ pc = "parse_done"
   /\ ~fetched.rejected
   /\ fetched.data.jsonLd \in {<<Malformed, Json(WidgetProduct)>>,
                               <<Json(WidgetProduct), Malformed>>}
   /\ fetched.data.microdata = <<>>
   /\ fetched.data.rdfa = <<>>) =>
    /\ results.status = "completed"
    /\ Len(results.validation.errors) = 1
    /\ results.validation.errors[1][1] = "Invalid JSON-LD: "
    /\ results.issues.critical = 1
    /\ Len(results.formats.jsonLd) = 1
    /\ Len(results.schemas) = 1

\* the valid block is reported as invalid too and leaves no record
C4_Witness ==
  /\ pc = "parse_done"
  /\ ~fetched.rejected
  /\ fetched.data.jsonLd = <<Malformed, Json(WidgetProduct)>>
  /\ fetched.data.microdata = <<>>
  /\ fetched.data.rdfa = <<>>
  /\ Len(results.validation.errors) = 2
  /\ results.validation.errors[2] =
       <<"Invalid JSON-LD: ">> \o NotAFunction("_validateSchemaType")
  /\ results.issues.critical = 2
  /\ results.schemas = <<>>

\* C5: a bulk operation returns one result per URL, in input order; a URL
\* none of whose requests succeeded contributes a result with status "error",
\* and the URLs after it are processed.
C5_BulkOneResultPerUrl ==
  pc = "bulk_done" =>
    /\ promise = "fulfilled"
    /\ Len(bulk.out) = Len(bulk.urls)
    /\ \A i \in 1..Len(bulk.urls) :
         /\ bulk.out[i].url = bulk.urls[i]
         /\ LET failed ==
                  IF bulk.op = "bulkExtract" THEN bulk.responses[i].rejected
                  ELSE /\ DOMAIN bulk.out[i].checks # {}
                       /\ \A check \in DOMAIN bulk.out[i].checks :
                            bulk.responses[i][check].rejected
            IN failed => bulk.out[i].status = "error"

\* bulkAnalyze of two URLs, the first unreachable: its entry has no status
\* and the score 67
C5_Witness ==
  /\ pc = "bulk_done"
  /\ bulk.op = "bulkAnalyze"
  /\ Len(bulk.out) = 2
  /\ DOMAIN bulk.out[1].checks = {"pageSpeed", "meta", "structuredData"}
  /\ bulk.responses[1].pageSpeed.rejected
  /\ bulk.responses[1].meta.rejected
  /\ bulk.responses[1].structuredData.rejected
  /\ bulk.out[1].status = Undefined
  /\ bulk.out[1].score = 67

\* C6: when the fetch fails, the score of the result parse or extract
\* returns is 0 (or absent), never a passing value.
C6_FetchFailureScoresZero ==
  (pc \in {"parse_done", "extract_done"} /\ fetched.rejected) => results.score = 0

C6_Witness ==
  /\ pc = "parse_done"
  /\ fetched.rejected
  /\ results.status = "error"
  /\ results.score = 100

\* C7: a parse result with status "error" has empty formats, schemas and
\* recommendations and all issue counters 0; an extract result with status
\* "error" has no meta value, heading, image or link.
C7_ErrorResultHasNoPartialOutput ==
  /\ (pc = "parse_done" /\ results.status = "error") =>
       /\ results.formats = [jsonLd |-> <<>>, microdata |-> <<>>, rdfa |-> <<>>]
       /\ results.schemas = <<>>
       /\ results.recommendations = <<>>
       /\ results.issues = [critical |-> 0, warnings |-> 0, passed |-> 0]
  /\ (pc = "extract_done" /\ results.status = "error") =>
       /\ \A k \in DOMAIN results.meta : results.meta[k] = JsNull
       /\ \A t \in DOMAIN results.headings : results.headings[t] = <<>>
       /\ results.images = [total |-> 0, withAlt |-> 0, withoutAlt |-> 0, images |-> <<>>]
       /\ results.links = [internal |-> 0, external |-> 0, total |-> 0]

\* the page was fetched, a JSON-LD block was counted, then a microdata item
\* ended the parse
C7_Witness ==
  /\ pc = "parse_done"
  /\ ~fetched.rejected
  /\ fetched.data.microdata # <<>>
  /\ results.status = "error"
  /\ results.issues.critical = 1

\* C8: on a completed parse issues.critical is the number of validation
\* errors and issues.warnings the number of validation warnings; the rule
\* methods keep the two equalities.
C8_CountersMatchMessages ==
  (/\ pc \in {"parse_done", "rules_decoded", "rules_validated", "rules_recommended",
              "rules_scored"}
   /\ results.status = "completed") =>
    /\ results.issues.critical = Len(results.validation.errors)
    /\ results.issues.warnings = Len(results.validation.warnings)

\* a Product without name, image and reviews: required, recommended and
\* type-specific findings together
C8_Witness ==
  /\ pc = "rules_validated"
  /\ Len(results.schemas) = 1
  /\ results.schemas[1].type = "Product"
  /\ results.issues.critical = 2
  /\ results.issues.warnings = 2

\* C9: a page whose only structured data is the JSON-LD Product
\* {name: "Widget"} gets exactly one error, the required property image,
\* with critical = 1, and one warning, the recommended properties, with
\* warnings = 1.
C9_WidgetProductFindings ==
  (/\ pc = "parse_done"
   /\ ~fetched.rejected
   /\ fetched.data = [jsonLd |-> <<Json(WidgetProduct)>>, microdata |-> <<>>,
                      rdfa |-> <<>>]) =>
    /\ results.validation.errors = <<<<"Product", " missing required property: ", "image">>>>
    /\ results.issues.critical = 1
    /\ Len(results.validation.warnings) = 1
    /\ results.validation.warnings[1] =
         <<"Product", " missing recommended properties: ">>
           \o Join(<<"description", "sku", "offers", "aggregateRating", "brand", "review">>)
    /\ results.issues.warnings = 1

\* the Product block is reported as invalid JSON-LD and never validated
C9_Witness ==
  /\ pc = "parse_done"
  /\ ~fetched.rejected
  /\ fetched.data = [jsonLd |-> <<Json(WidgetProduct)>>, microdata |-> <<>>,
                     rdfa |-> <<>>]
  /\ results.validation.errors =
       <<<<"Invalid JSON-LD: ">> \o NotAFunction("_validateSchemaType")>>
  /\ results.validation.warnings = <<>>
  /\ results.score = 85

\* C10: the score extract returns is between 0 and 100 for every
\* combination of title, description, viewport, Open Graph, Twitter,
\* canonical, heading and image deductions.
C10_ExtractScoreInRange ==
  pc = "extract_done" => results.score \in 0..100

\* every deduction at its largest: 100 - 91
C10_Witness ==
  /\ pc = "extract_done"
  /\ results.status = "completed"
  /\ results.score = 9

\* C11: on a completed extract images.total is the number of img elements
\* with a src, each of them is counted in exactly one of withAlt (alt
\* non-empty after trimming) and withoutAlt, images.images has one entry per
\* counted image, there is one alt-text issue exactly when withoutAlt > 0,
\* and the score is min(15, 2 * withoutAlt) below that of the same page with
\* every alt filled in.
C11_ImageCounts ==
  (pc = "extract_done" /\ results.status = "completed") =>
    LET HasSrc(img) == img.src \notin {Undefined, ""}
        HasAlt(img) == img.alt \notin {Undefined, ""} /\ trim(img.alt) # ""
        AltIssue(msg) ==
          /\ Len(msg) = 2
          /\ msg[2] = " images missing alt text - add descriptive alt text for accessibility and SEO"
        Holds(counted, withAlt, captioned) ==
          /\ results.images.total = Len(counted)
          /\ results.images.withAlt = withAlt
          /\ results.images.withoutAlt = Len(counted) - withAlt
          /\ results.images.total = results.images.withAlt + results.images.withoutAlt
          /\ Len(results.images.images) = results.images.total
          /\ Len(Filter(AltIssue, results.issues)) =
               (IF Len(counted) - withAlt > 0 THEN 1 ELSE 0)
          /\ (Len(counted) - withAlt > 0 =>
                <<ToString(Len(counted) - withAlt),
                  " images missing alt text - add descriptive alt text for accessibility and SEO">>
                  \in {results.issues[i] : i \in 1..Len(results.issues)})
          /\ captioned.score - results.score =
               (IF 2 * (Len(counted) - withAlt) < 15 THEN 2 * (Len(counted) - withAlt)
                ELSE 15)
        Counted(counted) ==
          Holds(counted, Len(Filter(HasAlt, counted)),
                extractResume(url, NewExtractResults(url),
                  Resolved([fetched.data EXCEPT !.imgs =
                    [i \in 1..Len(counted) |-> [counted[i] EXCEPT !.alt = "Test image"]]])).value)
    IN Counted(Filter(HasSrc, fetched.data.imgs))

\* the page of the extractor tests: three images, two with alt text
C11_Witness ==
  /\ pc = "extract_done"
  /\ results.status = "completed"
  /\ results.images.total = 3
  /\ results.images.withAlt = 2
  /\ results.images.withoutAlt = 1
  /\ \E i \in 1..Len(results.issues) :
       results.issues[i] =
         <<"1", " images missing alt text - add descriptive alt text for accessibility and SEO">>

\* C12: on a completed extract headings.h1 holds the n h1 elements whose
\* trimmed text is not empty; for n >= 2 there is exactly one warning
\* "Multiple H1 tags found (n) ..." and the score is 5 below that of the same
\* page with one h1; the issue "No H1 tag found" is raised, with 10 points,
\* exactly when n = 0, and never together with the warning.
C12_MultipleH1Warning ==
  (pc = "extract_done" /\ results.status = "completed") =>
    LET HasText(t) == trim(t) # ""
        Multiple(msg) == Len(msg) = 3 /\ msg[1] = "Multiple H1 tags found ("
        NoH1(msg) == msg = <<"No H1 tag found - add exactly one H1 tag">>
        Holds(n, single) ==
          /\ Len(results.headings["h1"]) = n
          /\ Len(Filter(Multiple, results.warnings)) = (IF n >= 2 THEN 1 ELSE 0)
          /\ (n >= 2 =>
                <<"Multiple H1 tags found (", ToString(n), ") - use only one H1 per page">>
                  \in {results.warnings[i] : i \in 1..Len(results.warnings)})
          /\ Len(Filter(NoH1, results.issues)) = (IF n = 0 THEN 1 ELSE 0)
          /\ single.score - results.score =
               (IF n >= 2 THEN 5 ELSE IF n = 0 THEN 10 ELSE 0)
    IN Holds(Len(Filter(HasText, fetched.data.headings["h1"])),
             extractResume(url, NewExtractResults(url),
               Resolved([fetched.data EXCEPT !.headings["h1"] = <<"Main Heading">>])).value)

\* a page with two h1 elements
C12_Witness ==
  /\ pc = "extract_done"
  /\ results.status = "completed"
  /\ fetched.data.headings["h1"] = <<"First H1", "Second H1">>
  /\ results.headings["h1"] = <<"First H1", "Second H1">>
  /\ \E i \in 1..Len(results.warnings) :
       results.warnings[i] =
         <<"Multiple H1 tags found (", "2", ") - use only one H1 per page">>

\* C12 as stated, counting every h1 element of the page: n >= 2 elements
\* give headings.h1 of length n and the warning with n interpolated.
C12_EveryH1ElementCounted ==
  (/\ pc = "extract_done"
   /\ results.status = "completed"
   /\ Len(fetched.data.headings["h1"]) >= 2) =>
    /\ Len(results.headings["h1"]) = Len(fetched.data.headings["h1"])
    /\ <<"Multiple H1 tags found (", ToString(Len(fetched.data.headings["h1"])),
         ") - use only one H1 per page">>
         \in {results.warnings[i] : i \in 1..Len(results.warnings)}

\* C13: on a completed extract links.total = links.internal +
\* links.external: a link with a malformed href is counted nowhere, and every
\* well-formed link that is not a fragment is counted once, as internal when
\* its host is the page's host and as external otherwise.
C13_LinkTotals ==
  (pc = "extract_done" /\ results.status = "completed") =>
    LET WellFormed(a) ==
          /\ Present(a.href)
          /\ a.href \notin Fragments
          /\ ~NewURL(a.href, url).threw
        Internal(a) ==
          /\ WellFormed(a)
          /\ NewURL(a.href, url).value.hostname = Hostname[url]
        Holds(wellFormed, internal) ==
          /\ results.links.total = results.links.internal + results.links.external
          /\ results.links.total = wellFormed
          /\ results.links.internal = internal
          /\ results.links.external = wellFormed - internal
    IN Holds(Len(Filter(WellFormed, fetched.data.links)),
             Len(Filter(Internal, fetched.data.links)))

\* the three links of the test page and one anchor with href="http://"
C13_Witness ==
  /\ pc = "extract_done"
  /\ results.status = "completed"
  /\ Len(fetched.data.links) = 4
  /\ fetched.data.links[4].href = "http://"
  /\ results.links = [internal |-> 2, external |-> 1, total |-> 4]

\* C14: the CSV text is the header row followed by one row per result, rows
\* separated by newlines and cells by commas, every cell wrapped in double
\* quotes with each double quote inside the cell value doubled.
C14_CsvCellsQuotedAndEscaped ==
  pc = "csv_done" =>
    LET Doubled == "Title with \"quotes\"" :> "Title with \"\"quotes\"\""
        Escaped(cell) == IF cell \in DOMAIN Doubled THEN Doubled[cell] ELSE cell
        Cell(cell) == <<"\"", Escaped(cell), "\"">>
        Line(row) == JoinWith([i \in 1..Len(row) |-> Cell(row[i])], ",")
        Holds(rows, n) ==
          /\ Len(rows) = 1 + n
          /\ csv.text = JoinWith([i \in 1..Len(rows) |-> Line(rows[i])], "\n")
    IN Holds(CsvRows(csv.input),
             IF "items" \in DOMAIN csv.input THEN Len(csv.input.items) ELSE 1)

\* the CSV of one result whose title is  Title with "quotes"
C14_Witness ==
  /\ pc = "csv_done"
  /\ "items" \notin DOMAIN csv.input
  /\ csv.input.meta["title"] =
       JsObj([content |-> JsStr("Title with \"quotes\""), length |-> JsNum(19)])
  /\ SubSeq(csv.text, 1, 3) = <<"\"", "URL", "\"">>
  /\ \E i \in 1..Len(csv.text) : csv.text[i] = "Title with \"quotes\""
  /\ Cardinality({i \in 1..Len(csv.text) : csv.text[i] = "\n"}) = 1

\* C15: the recommendations follow the bucket of the first matching rule in
\* the order homepage (URL ends with "/" or contains "/home"), product,
\* article, category, faq, local, event; the found schema types (Product,
\* then the Article family) decide only when no URL rule matches; "general"
\* uses the homepage list. A suggestion of the bucket's list is made exactly
\* when no found type occurs in it, and no suggestion of another list is made.
C15_PageTypeOrder ==
  (pc = "rules_recommended") =>
    LET types == {results.schemas[i].type : i \in 1..Len(results.schemas)}
        rules == <<
          <<"homepage", {"/home"}>>, <<"product", {"/product", "/item"}>>,
          <<"article", {"/article", "/blog"}>>, <<"category", {"/category", "/shop"}>>,
          <<"faq", {"/faq"}>>, <<"local", {"/contact", "/location"}>>,
          <<"event", {"/event"}>> >>
        Matches(i, lowered) ==
          \/ i = 1 /\ Chars[url][Len(Chars[url])] = "/"
          \/ \E needle \in rules[i][2] : includes(lowered, Chars[needle])
        Bucket(lowered) ==
          IF \E i \in 1..7 : Matches(i, lowered)
          THEN rules[CHOOSE i \in 1..7 :
                       /\ Matches(i, lowered)
                       /\ \A j \in 1..(i - 1) : ~Matches(j, lowered)][1]
          ELSE IF "Product" \in types THEN "product"
          ELSE IF types \cap {"Article", "BlogPosting", "NewsArticle"} # {} THEN "article"
          ELSE "homepage"
        Covered(rec) ==
          \E ty \in types : includes(toLowerCase(Chars[rec]), toLowerCase(Chars[ty]))
        Suggested(rec) ==
          <<"Consider adding ", rec, " schema">>
            \in {results.recommendations[i] : i \in 1..Len(results.recommendations)}
        Holds(list) ==
          \A b \in DOMAIN recommendations : \A k \in 1..Len(recommendations[b]) :
            Suggested(recommendations[b][k]) <=>
              /\ \E n \in 1..Len(list) : list[n] = recommendations[b][k]
              /\ ~Covered(recommendations[b][k])
    IN Holds(recommendations[Bucket(toLowerCase(Chars[url]))])

\* a URL ending in "/" that also contains "/product", with a Product record
\* found: the homepage suggestions are made
C15_Witness ==
  /\ pc = "rules_recommended"
  /\ url = "https://example.com/product/"
  /\ \E i \in 1..Len(results.schemas) : results.schemas[i].type = "Product"
  /\ <<"Consider adding ", "Organization or LocalBusiness", " schema">>
       \in {results.recommendations[i] : i \in 1..Len(results.recommendations)}
  /\ <<"Consider adding ", "Product with offers and reviews", " schema">>
       \notin {results.recommendations[i] : i \in 1..Len(results.recommendations)}

\* C16: two parse calls, or two extract calls, that were given the same URL
\* and whose fetches were answered with the same response return equal
\* results (timestamps apart, which are not modelled), whether the second
\* call started after the first returned or while it was suspended.
C16_Determinism ==
  \A c \in Callers : \A d \in Callers :
    (/\ calls[c].promise \notin {None, "pending"}
     /\ calls[d].promise \notin {None, "pending"}
     /\ calls[c].op = calls[d].op
     /\ calls[c].url = calls[d].url
     /\ calls[c].fetched.rejected = calls[d].fetched.rejected
     /\ calls[c].fetched = calls[d].fetched)
      => calls[c].returned = calls[d].returned

\* extract has returned twice for the same page, each time with the page's
\* one warning and the counts of its three links
C16_Witness ==
  /\ \A c \in Callers : calls[c].promise = "fulfilled" /\ calls[c].op = "extract"
  /\ calls[1].ref # calls[2].ref
  /\ calls[1].url = calls[2].url
  /\ \A c \in Callers : ~calls[c].fetched.rejected
  /\ calls[1].fetched = calls[2].fetched
  /\ calls[1].returned.links.total = 3
  /\ Len(calls[1].returned.warnings) > 0
  /\ calls[1].returned = calls[2].returned

\* C17: every call that has returned, returned what the same call returns
\* when it runs alone on a new results object, whatever other calls started
\* or returned while it was suspended at its fetch.
C17_ConcurrentCallsIsolated ==
  \A c \in Callers :
    calls[c].promise \notin {None, "pending"} =>
      calls[c].returned =
        (IF calls[c].op = "parse"
         THEN parseResume(calls[c].url, NewParseResults(calls[c].url),
                          calls[c].fetched).value
         ELSE extractResume(calls[c].url, NewExtractResults(calls[c].url),
                            calls[c].fetched).value)

\* a parse call that started while an extract call was suspended has
\* returned with the two errors of its own page before the fetch of the
\* extract call settled
C17_Witness ==
  /\ calls[1].promise = "pending"
  /\ calls[1].op = "extract"
  /\ calls[1].ref = 1
  /\ calls[2].promise = "fulfilled"
  /\ calls[2].op = "parse"
  /\ calls[2].ref = 2
  /\ calls[2].url # calls[1].url
  /\ ~calls[2].fetched.rejected
  /\ Len(calls[2].returned.validation.errors) = 2
  /\ calls[2].returned.issues.critical = 1
  /\ calls[2].returned.url = calls[2].url

\* C18: in a bulk operation one URL at a time is audited, in list order: the
\* audit of the first URL starts with an empty output, the audit of URL i
\* ends with the output holding i results and is followed by the delay, and
\* the audit of URL i+1 starts only out of that delay, with the results of
\* URLs 1..i in the output.
C18_BulkSequential ==
  /\ [](pc \in {"bulk_fetch", "bulk_audit"} =>
          /\ bulk.i \in 1..Len(bulk.urls)
          /\ Len(bulk.out) = bulk.i - 1)
  /\ [](pc = "bulk_delay" => Len(bulk.out) = bulk.i)
  /\ [][/\ (pc' \in {"bulk_fetch", "bulk_audit"} /\ pc' # pc) =>
             IF pc = "idle" THEN bulk'.i = 1 /\ bulk'.out = <<>>
             ELSE /\ pc = "bulk_delay"
                  /\ bulk'.i = bulk.i + 1
                  /\ Len(bulk.out) = bulk.i
                  /\ bulk'.out = bulk.out
        /\ (pc \in {"bulk_fetch", "bulk_audit"} /\ pc' # pc) =>
             \/ /\ pc' = "bulk_delay"
                /\ bulk'.i = bulk.i
                /\ Len(bulk'.out) = bulk.i
                /\ SubSeq(bulk'.out, 1, bulk.i - 1) = bulk.out
             \/ pc' = "bulk_done" /\ promise' = "rejected"]_vars

\* the audit of the second URL of bulkAnalyze is in flight, after the entry
\* of the first one, an error entry, was pushed
C18_Witness ==
  /\ pc = "bulk_audit"
  /\ bulk.op = "bulkAnalyze"
  /\ bulk.i = 2
  /\ Len(bulk.urls) = 2
  /\ Len(bulk.out) = 1
  /\ bulk.out[1].url = bulk.urls[1]

C21_CliExitsNonZeroOnFailure ==
  (/\ pc = "cli_done"
   /\ cli.args # <<>>
   /\ \/ fetched.meta.rejected
      \/ fetched.structuredData.rejected
      \/ fetched.pageSpeed.rejected
      \/ results.checks["structuredData"].status = "error") =>
    cli.exitCode # 0

\* every request of the audit failed, the report was printed and the
\* process ended with exit code 0
C21_Witness ==
  /\ pc = "cli_done"
  /\ cli.args = <<"https://example.com/">>
  /\ fetched.meta.rejected
  /\ fetched.structuredData.rejected
  /\ fetched.pageSpeed.rejected
  /\ results.checks["meta"].status = "error"
  /\ results.checks["structuredData"].status = "error"
  /\ cli.report
  /\ cli.exited
  /\ cli.exitCode = 0

\* C22: for a Product record, "Product missing required property: <name>"
\* is among the errors exactly for those of the required names name and
\* image that are not keys of the record's properties, and critical counts
\* each of these errors.
C22_RequiredMeansAbsent ==
  (/\ pc = "rules_validated"
   /\ Len(results.schemas) = 1
   /\ results.schemas[1].type = "Product") =>
    LET Reported(prop) ==
          <<"Product", " missing required property: ", prop>>
            \in {results.validation.errors[i] : i \in 1..Len(results.validation.errors)}
    IN \A prop \in {"name", "image"} :
         Reported(prop) <=> prop \notin DOMAIN results.schemas[1].properties

\* a Product whose name is the number 0: name is a key of the properties
\* and is reported as missing, with critical 1
C22_Witness ==
  /\ pc = "rules_validated"
  /\ Len(results.schemas) = 1
  /\ results.schemas[1].type = "Product"
  /\ "name" \in DOMAIN results.schemas[1].properties
  /\ results.schemas[1].properties["name"] = JsNum(0)
  /\ "image" \in DOMAIN results.schemas[1].properties
  /\ <<"Product", " missing required property: ", "name">>
       \in {results.validation.errors[i] : i \in 1..Len(results.validation.errors)}
  /\ results.issues.critical = 1

\* C23: validating a record of a type outside the table adds no error and
\* no warning and leaves both counters at 0; a record of a type named in the
\* table is given to a rule function, each of which reports at least one
\* missing required property for a record without properties.
C23_TableTypesDispatched ==
  (pc = "rules_validated" /\ Len(results.schemas) = 1) =>
    LET named == {"Organization", "LocalBusiness", "Product", "Article",
                  "BlogPosting", "NewsArticle", "BreadcrumbList", "FAQPage",
                  "Recipe", "Event", "Person", "WebSite", "SearchAction"}
        Holds(schema) ==
          /\ schema.type \notin named =>
               /\ results.validation.errors = <<>>
               /\ results.validation.warnings = <<>>
               /\ results.issues.critical = 0
               /\ results.issues.warnings = 0
          /\ (schema.type \in named /\ DOMAIN schema.properties = {}) =>
               Len(results.validation.errors) > 0
    IN Holds(results.schemas[1])

\* a LocalBusiness record without properties has been validated: nothing
\* was reported
C23_Witness ==
  /\ pc = "rules_validated"
  /\ Len(results.schemas) = 1
  /\ results.schemas[1].type = "LocalBusiness"
  /\ DOMAIN results.schemas[1].properties = {}
  /\ results.validation.errors = <<>>
  /\ results.validation.warnings = <<>>
  /\ results.issues.critical = 0

\* C24: the "Consider adding <suggestion> schema" recommendations are, in
\* list order, those suggestions of the selected bucket in which no found
\* schema type occurs as a substring when case is ignored.
C24_SuggestionsByCaseInsensitiveSubstring ==
  (pc = "rules_recommended") =>
    LET types == [i \in 1..Len(results.schemas) |-> results.schemas[i].type]
        LowerCase(cs) ==
          [i \in 1..Len(cs) |-> IF cs[i] \in DOMAIN Lower THEN Lower[cs[i]] ELSE cs[i]]
        Occurs(part, whole) ==
          \E i \in 0..(Len(whole) - Len(part)) :
            SubSeq(whole, i + 1, i + Len(part)) = part
        Open(rec) ==
          \A i \in 1..Len(types) :
            ~Occurs(LowerCase(Chars[types[i]]), LowerCase(Chars[rec]))
        IsSuggestion(msg) == Len(msg) = 3 /\ msg[1] = "Consider adding "
        Holds(emitted, open) ==
          /\ Len(emitted) = Len(open)
          /\ \A k \in 1..Len(open) :
               emitted[k] = <<"Consider adding ", open[k], " schema">>
        Bucket(pageType) ==
          IF pageType \in DOMAIN recommendations THEN recommendations[pageType]
          ELSE recommendations["homepage"]
    IN Holds(Filter(IsSuggestion, results.recommendations),
             Filter(Open, Bucket(_detectPageType(url, types))))

\* a product page on which only an Offer record was found: the suggestion
\* "Product with offers and reviews" is not made, the two others are
C24_Witness ==
  /\ pc = "rules_recommended"
  /\ url = "https://example.com/blog/item-7"
  /\ Len(results.schemas) = 1
  /\ results.schemas[1].type = "Offer"
  /\ LET IsSuggestion(msg) == Len(msg) = 3 /\ msg[1] = "Consider adding "
     IN Filter(IsSuggestion, results.recommendations) =
          <<<<"Consider adding ", "BreadcrumbList", " schema">>,
            <<"Consider adding ", "Organization", " schema">>>>

\* C25: after a completed parse, and after _analyzeAndRecommend on decoded
\* records, issues.passed = schemas.length - critical - warnings with both
\* counters non-negative; passed is negative exactly when critical +
\* warnings exceeds the number of schemas.
C25_PassedUnclamped ==
  (\/ pc = "parse_done" /\ results.status = "completed"
   \/ pc \in {"rules_recommended", "rules_scored"}) =>
    /\ results.issues.critical >= 0
    /\ results.issues.warnings >= 0
    /\ results.issues.passed =
         Len(results.schemas) - results.issues.critical - results.issues.warnings
    /\ (results.issues.passed < 0 <=>
          results.issues.critical + results.issues.warnings > Len(results.schemas))

\* a page with only a malformed JSON-LD block: passed is -1
C25_Witness ==
  /\ pc = "parse_done"
  /\ results.status = "completed"
  /\ fetched.data = [jsonLd |-> <<Malformed>>, microdata |-> <<>>, rdfa |-> <<>>]
  /\ results.schemas = <<>>
  /\ results.issues.critical = 1
  /\ results.issues.warnings = 0
  /\ results.issues.passed = -1

\* C26: the schema object of a Microdata item holds, for every property
\* name of an itemprop element of the item itself, the element's value when
\* the name occurs once and the sequence of the values in document order
\* when it occurs more often; names that occur only in nested items are not
\* keys of the object.
C26_MicrodataPropertiesCollected ==
  (pc = "microdata_extracted" /\ promise = "fulfilled") =>
    LET IsOwn(elem) == elem.scopes = 1
        Holds(own) ==
          \A name \in {"name", "image", "url"} :
            LET Named(elem) == elem.itemprop = name
                Values(elems) ==
                  [i \in 1..Len(elems) |-> _getMicrodataValue(elems[i]).value]
                Stored(values) ==
                  IF values = <<>> THEN name \notin DOMAIN results.fields
                  ELSE /\ name \in DOMAIN results.fields
                       /\ results.fields[name] =
                            (IF Len(values) = 1 THEN values[1] ELSE JsArr(values))
            IN Stored(Values(Filter(Named, own)))
    IN Holds(Filter(IsOwn, fetched))

\* an item with one name element of its own: the schema object has no name
C26_Witness ==
  /\ pc = "microdata_extracted"
  /\ promise = "fulfilled"
  /\ Len(fetched) = 1
  /\ fetched[1].itemprop = "name"
  /\ fetched[1].scopes = 1
  /\ fetched[1].text = "  Widget  "
  /\ DOMAIN results.fields = {"@type", "@context", "_format"}

C29_OnlyStartHostEnqueued ==
  pc \in {"scan_loop", "scan_audit", "scan_links", "scan_done"} =>
    /\ Cardinality(scanner.visitedUrls) <= scanner.maxPages
    /\ Len(scanner.results) <= scanner.maxPages
    /\ \A i, j \in 1..Len(scanner.audited) :
         scanner.audited[i] = scanner.audited[j] => i = j
    /\ \A i \in 1..Len(scanner.urlsToVisit) :
         UrlParts[scanner.urlsToVisit[i]].host = UrlParts[scanner.baseUrl].host

\* C29 (amended): during a scan the visited URLs and the stored results
\* never outnumber maxPages, no URL string is audited twice, and every
\* queued URL has the hostname of the start URL, whatever its port
C29_CrawlBounded ==
  pc \in {"scan_loop", "scan_audit", "scan_links", "scan_done"} =>
    /\ Cardinality(scanner.visitedUrls) <= scanner.maxPages
    /\ Len(scanner.results) <= scanner.maxPages
    /\ \A i, j \in 1..Len(scanner.audited) :
         scanner.audited[i] = scanner.audited[j] => i = j
    /\ \A i \in 1..Len(scanner.urlsToVisit) :
         UrlParts[scanner.urlsToVisit[i]].hostname = UrlParts[scanner.baseUrl].hostname

\* a scan that has visited maxPages pages and stored as many results while
\* a page that linked to itself waits in the queue a second time
C29_Witness ==
  /\ pc = "scan_loop"
  /\ Cardinality(scanner.visitedUrls) = scanner.maxPages
  /\ Len(scanner.results) = scanner.maxPages
  /\ Len(scanner.audited) = scanner.maxPages
  /\ \E i \in 1..Len(scanner.urlsToVisit) : scanner.urlsToVisit[i] \in scanner.visitedUrls

\* C30: a scan whose loop runs and whose requests settle reaches its end
\* with the report generated exactly once (never more), the pages whose
\* audit or link request failed among the visited ones, and exit code 0
C30_ScanTerminates ==
  /\ (pc \in {"scan_loop", "scan_audit", "scan_links"})
       ~> (pc = "scan_done" /\ scanner.reports = 1 /\ scanner.exitCode = 0)
  /\ [](pc \in {"scan_loop", "scan_audit", "scan_links", "scan_done"} =>
          /\ scanner.reports <= 1
          /\ pc = "scan_done" => scanner.reports = 1 - scanner.exitCode
          /\ pc \in {"scan_loop", "scan_done"} =>
               /\ scanner.failed \subseteq scanner.visitedUrls
               /\ \A i \in 1..Len(scanner.audited) :
                    scanner.audited[i] \in scanner.visitedUrls
          /\ pc = "scan_done" /\ scanner.exitCode = 0 =>
               \/ scanner.urlsToVisit = <<>>
               \/ Cardinality(scanner.visitedUrls) = scanner.maxPages)

\* a finished scan of several pages, one of which had all the requests of
\* its audit and the request for its links fail, with its one report
C30_Witness ==
  /\ pc = "scan_done"
  /\ scanner.reports = 1
  /\ Cardinality(scanner.visitedUrls) >= 2
  /\ \E i \in 1..Len(scanner.results) :
       /\ scanner.results[i].url \in scanner.failed
       /\ scanner.results[i].url \in scanner.visitedUrls
       /\ \A name \in DOMAIN scanner.results[i].checks :
            scanner.results[i].checks[name].status = "error"
       /\ i < Len(scanner.results)
====
